---- MODULE Spec2Model ----
(***************************************************************************)
(* The supervised receive-or-send loop of the rt-toolbox bridges.          *)
(*                                                                         *)
(* One run of one bridge is modelled: a consumer (get_message / decode /   *)
(* ack_message) or a producer (read line / publish_message / poison pill), *)
(* together with the asynchronous SIGINT and SIGTSTP handlers, a discrete  *)
(* clock standing for time.time(), and the broker queue or the source      *)
(* file.  Every read of signal_flags, of the clock and every broker call   *)
(* is a step of its own, so a signal may fall between any two of them and  *)
(* any amount of time may pass between two reads of the clock.             *)
(***************************************************************************)
EXTENDS Integers, Sequences, FiniteSets, TLC

\* ------------------------------------------------------------------ bounds
MaxQueue == 2      \* messages the broker holds for the consumer in one run
MaxLines == 2      \* lines of the producer's source file
MaxTime == 3       \* last value of the discrete clock
MaxTimeout == 2    \* largest --timeout argument
MaxResults == 6    \* results one statistics loop is handed in one run
MaxTrace == 3      \* results of a run whose trace is followed
MaxSignals == 6    \* signals delivered to one process
MaxSpecs == 2      \* counterexample messages the results logger receives

\* ----------------------------------------------------------------- drivers
Consumers ==
  {"events_writer", "analysis_stats", "results_logger",
   "analysis_logger_sh", "log_analyzer_sh", "rt_results_writer_sh",
   "rt_events_writer_sh", "rt_analysis_stats_sh", "rt_results_logger_sh"}

Producers == {"file_reader_sh", "events_reader", "rt_events_reader_sh"}

\* The worker threads and the rt_file_tools mains, with rt_results_writer_sh.
Drivers ==
  {"events_writer", "analysis_stats", "results_logger", "analysis_logger_sh",
   "log_analyzer_sh", "rt_results_writer_sh"} \cup Producers

\* The rt_toolbox mains that exit with a code of their own per failure.
ShDrivers ==
  {"rt_events_writer_sh", "rt_analysis_stats_sh", "rt_results_logger_sh",
   "rt_events_reader_sh"}

\* The loops that run as the run() method of a threading.Thread.
ThreadDrivers ==
  {"events_writer", "analysis_stats", "results_logger", "events_reader"}

\* The consumers that read the `type` header of a non-sentinel message.
TypedConsumers ==
  {"analysis_stats", "results_logger", "rt_analysis_stats_sh",
   "rt_results_logger_sh", "rt_results_writer_sh"}

\* The drivers whose code closes the broker connection after the summary.
ClosingDrivers ==
  {"analysis_logger_sh", "log_analyzer_sh", "file_reader_sh",
   "rt_events_reader_sh", "rt_results_writer_sh"}

\* The drivers whose code closes the broker connection before the summary.
ClosesBeforeSummary ==
  {"rt_events_writer_sh", "rt_analysis_stats_sh", "rt_results_logger_sh"}

\* ---------------------------------------------------------------- messages
\* A message as basic_get returns it: the `termination` header ("absent",
\* "true" or "false"), the `type` header ("none" when absent) and the body,
\* abstracted to what the codec makes of it: "ok" decodes, "bad" is rejected
\* by the codec, "empty" is the empty byte string.
Pill == [term |-> "true", type |-> "none", body |-> "empty"]
PillWithPayload == [term |-> "true", type |-> "verdict", body |-> "bad"]
PlainOk == [term |-> "absent", type |-> "none", body |-> "ok"]
PlainBad == [term |-> "false", type |-> "none", body |-> "bad"]
VerdictOk == [term |-> "false", type |-> "verdict", body |-> "ok"]
VerdictBad == [term |-> "absent", type |-> "verdict", body |-> "bad"]
CexOk == [term |-> "absent", type |-> "counterexample", body |-> "ok"]
CexBad == [term |-> "absent", type |-> "counterexample", body |-> "bad"]
LogEntry == [term |-> "absent", type |-> "log_entry", body |-> "ok"]

\* The messages a run of driver d is fed: those its code tells apart.
DriverMsgs(d) ==
  CASE d \in {"analysis_stats", "rt_analysis_stats_sh"} ->
         {Pill, PillWithPayload, PlainOk, VerdictOk, VerdictBad, LogEntry}
    [] d \in {"results_logger", "rt_results_logger_sh"} ->
         {Pill, PlainOk, VerdictOk, VerdictBad, CexOk, CexBad, LogEntry}
    [] d = "rt_results_writer_sh" ->
         {Pill, PlainOk, VerdictOk, CexOk, LogEntry}
    [] OTHER -> {Pill, PillWithPayload, PlainOk, PlainBad}

NoMsg == [term |-> "absent", type |-> "none", body |-> "none"]

\* Lines of the source file: a well-formed event line or a malformed one.
Lines == {"csv_ok", "csv_bad"}

BoundedSeq(S, n) == UNION {[1..k -> S] : k \in 0..n}

NoSummary == [status |-> "none", cause |-> "none"]

VARIABLES
  driver,            \* which bridge runs
  pc,                \* position of the loop
  arg_timeout,       \* args.timeout
  config_timeout,    \* config.timeout
  signal_flags,      \* {'stop': ..., 'pause': ...}
  now,               \* the value time.time() returned last
  start_time_epoch,
  last_message_time,
  poison_received,
  completed,
  stop,
  timeout,           \* the flag `timeout` (named `abort` in two consumers)
  queue,             \* messages the broker still holds for the consumer
  msg,               \* (method, properties, body) of the last get_message
  fetched,           \* messages returned by get_message; delivery tag = index
  acked,             \* delivery tags passed to ack_message, in call order
  decoded,           \* delivery tags whose body was handed to the codec
  written,           \* delivery tags whose payload was written to the sink
  number_of_events,  \* the processed count of the summary line
  input_file,        \* lines of the producer's source file
  line_no,           \* lines taken from input_file by the for loop
  sent,              \* publish_message calls, in call order
  connection_open,
  summary,           \* status and cause of the summary line, once logged
  seen_pause,        \* signal_flags['pause'] as the loop last read it
  intr_in_wait,      \* history: SIGINT first arrived inside the pause wait
  exit_status,       \* how the run ended: exit(code), an exception, a return
  units_after_stop,  \* history: get_message / payload publish_message calls
                     \* made since signal_flags['stop'] became True
  resumed,           \* history: this iteration left the pause wait
  writer,            \* rt_events_writer_sh reading what the producer sent
  aggregator,        \* which statistics loop folds the results
  stats,             \* the statistics counters and the loop's position
  received,          \* history: results handed to the fold, by kind
  adapter,           \* one call of a rabbitmq_utility operation
  delivered,         \* history: the signals delivered, in order
  spec_files         \* the results logger on counterexample messages

vars ==
  <<driver, pc, arg_timeout, config_timeout, signal_flags, now,
    start_time_epoch, last_message_time, poison_received, completed, stop,
    timeout, queue, msg, fetched, acked, decoded, written, number_of_events,
    input_file, line_no, sent, connection_open, summary, seen_pause,
    intr_in_wait, exit_status, units_after_stop, resumed, writer, aggregator,
    stats, received, adapter,
    delivered, spec_files>>

\* The variables of the supervised loop.
loopVars ==
  <<driver, pc, arg_timeout, config_timeout, signal_flags, now,
    start_time_epoch, last_message_time, poison_received, completed, stop,
    timeout, queue, msg, fetched, acked, decoded, written, number_of_events,
    input_file, line_no, sent, connection_open, summary, seen_pause,
    intr_in_wait, exit_status, units_after_stop, resumed>>

\* The variables the supervised loop never touches.
sideVars ==
  <<writer, aggregator, stats, received, adapter, delivered, spec_files>>

ctlVars == <<poison_received, completed, stop, timeout>>
cfgVars == <<driver, arg_timeout, config_timeout>>
brokerVars == <<queue, msg, fetched, acked>>
sinkVars == <<decoded, written, number_of_events>>
fileVars == <<input_file, line_no, sent>>
timeVars == <<now, start_time_epoch, last_message_time>>

\* -------------------------------------------------- results and statistics
\* A decoded result as the statistics fold tells it apart: its class
\* (ProcessVerdict, AnalysisVerdict, neither), its subtype and its outcome.
Result(c, s, o) == [class |-> c, subtype |-> s, outcome |-> o]

\* The verdicts VerdictDictCoDec.from_dict may hand to AnalysisStats.run and
\* rt_analysis_stats_sh; "Other" is a subtype, "OTHER" an outcome, the code
\* has no branch for.
Verdicts ==
  {Result("process", s, "none") :
     s \in {"TaskStarted", "TaskFinished", "CheckpointReached", "Other"}}
  \cup {Result("analysis", s, o) :
          s \in {"Py", "SymPy"}, o \in {"PASS", "FAIL", "OTHER"}}
  \cup {Result("analysis", "SMT2", o) :
          o \in {"PASS", "MIGHT_FAIL", "FAIL", "OTHER"}}
  \cup {Result("analysis", "Other", "none"), Result("other", "Other", "none")}

\* The log entries rt_log_analyzer_sh splits into a dictionary: a process
\* entry, or a property entry with its 'Analysis' value ("none": no such key).
LogEntries ==
  {Result("process", s, "none") :
     s \in {"TaskStarted", "TaskFinished", "CheckpointReached"}}
  \cup {Result("analysis", "Property", o) :
          o \in {"PASS", "MIGHT_FAIL", "FAIL", "OTHER", "none"}}

VerdictAggregators == {"analysis_stats", "rt_analysis_stats_sh"}

Aggregators == VerdictAggregators \cup {"rt_log_analyzer_sh"}

ResultsOf(a) == IF a \in VerdictAggregators THEN Verdicts ELSE LogEntries

\* The counters before the loop, with the loop's position and the delivery
\* tag of the message in hand.
ZeroStats ==
  [pc |-> "idle", delivery_tag |-> 0,
   task_started |-> 0, task_finished |-> 0, checkpoints_reached |-> 0,
   analyzed_props |-> 0, passed_props |-> 0, might_fail_props |-> 0,
   failed_props |-> 0, trace_length |-> 0, number_of_results |-> 0,
   acked |-> 0, report |-> <<>>]

NoneReceived == [r \in Verdicts \cup LogEntries |-> 0]

\* rt_events_writer_sh before it starts.
IdleWriter ==
  [pc |-> "idle", taken |-> 0, acked |-> <<>>, written |-> <<>>,
   number_of_events |-> 0, poison_received |-> FALSE,
   connection_open |-> FALSE, summary |-> NoSummary, exit_code |-> 0]

\* The results logger before any counterexample message: no side-file.
NoSpecFiles ==
  [pc |-> "idle", fetched |-> <<>>, acked |-> <<>>, writes |-> <<>>,
   files |-> {}]

\* No rabbitmq_utility call under way.
IdleAdapter ==
  [pc |-> "idle", op |-> "none", call |-> 0, exc |-> "none", raised |-> "none"]

SideIdle ==
  /\ writer = IdleWriter
  /\ aggregator = "none"
  /\ stats = ZeroStats
  /\ received = NoneReceived
  /\ adapter = IdleAdapter
  /\ delivered = <<>>
  /\ spec_files = NoSpecFiles

\* The run has not ended.
Running == [kind |-> "running", code |-> 0]

\* ------------------------------------------------------------------- Init
\* The loop of a driver of D, started with a --timeout argument of A on a
\* source file whose lines are of L.
LoopInitOn(D, A, L) ==
  /\ driver \in D
  /\ pc = "start"
  /\ arg_timeout \in A
  /\ config_timeout = 0
  /\ signal_flags = [stop |-> FALSE, pause |-> FALSE]
  /\ now = 0
  /\ start_time_epoch = 0
  /\ last_message_time = 0
  /\ poison_received = FALSE
  /\ completed = FALSE
  /\ stop = FALSE
  /\ timeout = FALSE
  /\ queue \in (IF driver \in Consumers
                  THEN BoundedSeq(DriverMsgs(driver), MaxQueue) ELSE {<<>>})
  /\ msg = NoMsg
  /\ fetched = <<>>
  /\ acked = <<>>
  /\ decoded = <<>>
  /\ written = <<>>
  /\ number_of_events = 0
  /\ input_file \in (IF driver \in Producers
                       THEN BoundedSeq(L, MaxLines) ELSE {<<>>})
  /\ line_no = 0
  /\ sent = <<>>
  /\ connection_open = FALSE
  /\ summary = NoSummary
  /\ seen_pause = FALSE
  /\ intr_in_wait = FALSE
  /\ exit_status = Running
  /\ units_after_stop = 0
  /\ resumed = FALSE

LoopInit(D, A) == LoopInitOn(D, A, Lines)

Init == LoopInit(Drivers, -1..MaxTimeout) /\ SideIdle

InitSh == LoopInit(ShDrivers, -1..MaxTimeout) /\ SideIdle

\* ------------------------------------------------------- signal handlers
\* signal_flags['stop'] = True
StopRequested(flags) == [flags EXCEPT !.stop = TRUE]

\* Mutant: SIGTSTP sets the pause flag.
PauseToggledSetsPause(flags) == [flags EXCEPT !.pause = TRUE]

\* signal_flags['pause'] = not signal_flags['pause']
PauseToggled(flags) == [flags EXCEPT !.pause = ~flags.pause]

sigint_handler ==
  /\ pc \notin {"done", "failed"}
  /\ UNCHANGED <<exit_status, units_after_stop, resumed, sideVars>>
  /\ signal_flags' = StopRequested(signal_flags)
  /\ intr_in_wait' = (intr_in_wait \/ (pc = "wait" /\ ~signal_flags.stop))
  /\ UNCHANGED <<cfgVars, pc, timeVars, ctlVars, brokerVars, sinkVars,
                 fileVars, connection_open, summary, seen_pause>>

sigtstp_handler ==
  /\ pc \notin {"done", "failed"}
  /\ UNCHANGED <<exit_status, units_after_stop, resumed, sideVars>>
  /\ signal_flags' = PauseToggled(signal_flags)
  /\ UNCHANGED <<cfgVars, pc, timeVars, ctlVars, brokerVars, sinkVars,
                 fileVars, connection_open, summary, seen_pause, intr_in_wait>>

\* time.time(): any value from the last one read on (the clock is monotone;
\* `now` is the last value it returned).
ClockValues == now..MaxTime

\* ---------------------------------------------------------------- startup
\* Mutant: the argument is stored as given.
NormalizeTimeoutAsGiven(t) == t

\* timeout = args.timeout if args.timeout >= 0 else 0
NormalizeTimeout(t) == IF t >= 0 THEN t ELSE 0

LoopEntry(d) == IF d \in Consumers THEN "while" ELSE "for"

\* main() up to the loop: normalise the timeout, connect, initialise.
Configure ==
  /\ pc = "start"
  /\ UNCHANGED <<exit_status, units_after_stop, resumed, sideVars>>
  /\ config_timeout' = NormalizeTimeout(arg_timeout)
  /\ connection_open' = TRUE
  /\ start_time_epoch' = now
  /\ last_message_time' = now
  /\ pc' = LoopEntry(driver)
  /\ UNCHANGED <<driver, arg_timeout, signal_flags, now, ctlVars,
                 brokerVars, sinkVars, fileVars, summary, seen_pause, intr_in_wait>>

\* ------------------------------------------------------------ exit status
\* The argument of exit() on a failure of the given bucket: RabbitMQError
\* from the transport, a codec error, or a missing or unrecognized `type`
\* header.  log_analyzer_sh does not catch the ValueError of its split: the
\* interpreter ends with status 1.
ExitCode(d, bucket) ==
  CASE bucket = "transport" -> -2
    [] bucket = "codec" -> IF d = "log_analyzer_sh" THEN 1 ELSE -3
    [] bucket = "protocol" -> -2
    [] OTHER -> 0

\* How a failure ends the run: the worker threads raise, the mains exit.
ExitOn(d, bucket) ==
  IF d \in ThreadDrivers
    THEN [kind |-> "raise", code |-> 0]
    ELSE [kind |-> "exit", code |-> ExitCode(d, bucket)]

\* The end of a run that logged its summary: run() returns, main calls exit(0).
NormalExit(d) ==
  IF d \in ThreadDrivers
    THEN [kind |-> "return", code |-> 0]
    ELSE [kind |-> "exit", code |-> 0]

\* Mutant: the loop goes on to its next iteration after the error.
AfterRabbitMQErrorRetries(d) == IF d \in Consumers THEN "while" ELSE "for"

\* Mutant: a producer goes on to the sentinel after the error.
AfterRabbitMQErrorSendsPill(d) == IF d \in Consumers THEN "failed" ELSE "pill"

\* except RabbitMQError: exit(-2) / raise: where the run stands afterwards.
AfterRabbitMQError(d) == "failed"

\* Where the code goes when the loop is left (consumers) or the poison pill
\* is out (producers).
AfterLoopPc(d) == IF d \in ClosesBeforeSummary THEN "close" ELSE "report"

\* ----------------------------------------------- control loop, all drivers
\* Mutant: the loop test leaves poison_received out.
LoopContinuesIgnoresPoison(poison, stp, tmo) == ~stp /\ ~tmo

\* Mutant: a `not` is missing in front of the timeout flag.
LoopContinuesMissingNot(poison, stp, tmo) == ~poison /\ ~stp /\ tmo

\* Mutant: the loop test leaves stop out.
LoopContinuesIgnoresStop(poison, stp, tmo) == ~poison /\ ~tmo

\* while not poison_received and not stop and not timeout
LoopContinues(poison, stp, tmo) == ~poison /\ ~stp /\ ~tmo

\* Consumers: the while test, then `if signal_flags['stop']: stop = True`.
LoopTop ==
  /\ pc = "while"
  /\ UNCHANGED <<exit_status, units_after_stop, resumed, sideVars>>
  /\ driver \in Consumers
  /\ IF LoopContinues(poison_received, stop, timeout)
       THEN /\ stop' = (stop \/ signal_flags.stop)
            /\ pc' = "pause"
       ELSE /\ pc' = AfterLoopPc(driver)
            /\ UNCHANGED stop
  /\ UNCHANGED <<cfgVars, signal_flags, timeVars, poison_received, completed,
                 timeout, brokerVars, sinkVars, fileVars, connection_open,
                 summary, seen_pause, intr_in_wait>>

\* Producers: `for line in input_file` takes the next line, or its else
\* branch sets completed at EOF; then `if signal_flags['stop']: stop = True`.
NextLine ==
  /\ pc = "for"
  /\ UNCHANGED <<exit_status, units_after_stop, resumed, sideVars>>
  /\ driver \in Producers
  /\ IF line_no < Len(input_file)
       THEN /\ line_no' = line_no + 1
            /\ stop' = (stop \/ signal_flags.stop)
            /\ pc' = "pause"
            /\ UNCHANGED completed
       ELSE /\ completed' = TRUE
            /\ pc' = "pill"
            /\ UNCHANGED <<line_no, stop>>
  /\ UNCHANGED <<cfgVars, signal_flags, timeVars, poison_received, timeout,
                 brokerVars, sinkVars, input_file, sent, connection_open,
                 summary, seen_pause, intr_in_wait>>

\* if signal_flags['pause']: enter the wait
CheckPauseStep ==
  /\ pc = "pause"
  /\ UNCHANGED <<exit_status, units_after_stop, sideVars>>
  /\ seen_pause' = signal_flags.pause
  /\ pc' = IF signal_flags.pause THEN "wait" ELSE "tmo"
  /\ UNCHANGED <<cfgVars, signal_flags, timeVars, ctlVars, brokerVars,
                 sinkVars, fileVars, connection_open, summary, intr_in_wait>>

CheckPause == CheckPauseStep /\ UNCHANGED resumed

\* Mutant: a `not` is missing in front of the stop flag.
StaysPausedMissingNot(flags) == flags.pause /\ flags.stop

\* while signal_flags['pause'] and not signal_flags['stop']
StaysPaused(flags) == flags.pause /\ ~flags.stop

\* One test of the wait loop: time.sleep(1) and test again, or leave.  The
\* sleep reads no clock; the time it takes shows in the next clock read.
PauseWait ==
  /\ pc = "wait"
  /\ UNCHANGED <<exit_status, units_after_stop, resumed, sideVars>>
  /\ seen_pause' = signal_flags.pause
  /\ pc' = IF StaysPaused(signal_flags) THEN "wait" ELSE "resume"
  /\ UNCHANGED <<cfgVars, signal_flags, timeVars, ctlVars, brokerVars,
                 sinkVars, fileVars, connection_open, summary, intr_in_wait>>

\* Mutant: the loop clears the pause flag when it leaves the wait.
FlagsAfterWaitCleared(flags) == [flags EXCEPT !.pause = FALSE]

\* signal_flags after the wait: the loop reads the two flags and assigns
\* neither.
FlagsAfterWait(flags) == flags

\* Mutant: the idle period starts again when the loop leaves the wait.
IdleAfterWaitRestarted(lmt, t) == t

\* last_message_time after the wait: no statement of the pause handling
\* assigns it, so the time spent paused counts as idle time.
IdleAfterWait(lmt, t) == lmt

\* After the wait: `if signal_flags['stop']: stop = True`.
LeavePauseStep ==
  /\ pc = "resume"
  /\ UNCHANGED <<exit_status, units_after_stop, sideVars>>
  /\ stop' = (stop \/ signal_flags.stop)
  /\ signal_flags' = FlagsAfterWait(signal_flags)
  /\ last_message_time' = IdleAfterWait(last_message_time, now)
  /\ pc' = "tmo"
  /\ UNCHANGED <<cfgVars, now, start_time_epoch, poison_received, completed,
                 timeout, brokerVars, sinkVars, fileVars, connection_open,
                 summary, seen_pause, intr_in_wait>>

LeavePause == LeavePauseStep /\ UNCHANGED resumed

\* Mutant: the idle time is compared with <= instead of <.
IdleTimeoutReachedInclusive(T, t, last) == 0 < T /\ T <= t - last

\* Consumers: 0 < config.timeout < (time.time() - last_message_time)
IdleTimeoutReached(T, t, last) == 0 < T /\ T < t - last

\* Producers: config.timeout != 0 and time.time() - start_time_epoch >= config.timeout
RunTimeoutReached(T, t, start) == T # 0 /\ t - start >= T

\* Both tests short-circuit: time.time() is called only when the first
\* conjunct holds.
ReadsClock(d, T) == IF d \in Consumers THEN 0 < T ELSE T # 0

TimeoutReached(t) ==
  IF driver \in Consumers
    THEN IdleTimeoutReached(config_timeout, t, last_message_time)
    ELSE RunTimeoutReached(config_timeout, t, start_time_epoch)

\* Mutant: the break test leaves stop out.
DoesWorkIgnoresStop(stp, tmo) == ~tmo

\* Consumers: `if not stop and not timeout:` guards the fetch.
\* Producers: `if stop or timeout: break`.
DoesWork(stp, tmo) == ~stp /\ ~tmo

CheckTimeout ==
  /\ pc = "tmo"
  /\ UNCHANGED <<exit_status, units_after_stop, resumed, sideVars>>
  /\ \E t \in (IF ReadsClock(driver, config_timeout) THEN ClockValues ELSE {now}) :
       /\ now' = t
       /\ timeout' = (timeout \/ TimeoutReached(t))
  /\ pc' = IF driver \in Consumers
             THEN (IF DoesWork(stop, timeout') THEN "get" ELSE "while")
             ELSE (IF DoesWork(stop, timeout') THEN "publish" ELSE "pill")
  /\ UNCHANGED <<cfgVars, signal_flags, start_time_epoch, last_message_time,
                 poison_received, completed, stop, brokerVars, sinkVars,
                 fileVars, connection_open, summary, seen_pause, intr_in_wait>>

\* --------------------------------------------------------------- consumers
\* Mutant: the sentinel is recognised only when its body is empty.
IsTerminationEmptyBody(m) == m.term = "true" /\ m.body = "empty"

\* if properties.headers and properties.headers.get('termination')
IsTermination(m) == m.term = "true"

\* if properties.headers and properties.headers.get('type'), negated: the
\* typed consumers raise on a non-sentinel message without a type.
MissingType(d, m) == d \in TypedConsumers /\ m.type = "none"

\* The `type` values a typed consumer has a branch for.
KnownTypes(d) ==
  IF d \in {"results_logger", "rt_results_logger_sh"}
    THEN {"verdict", "counterexample"}
  ELSE IF d = "rt_results_writer_sh" THEN {"log_entry", "counterexample"}
  ELSE IF d \in {"analysis_stats", "rt_analysis_stats_sh"}
    THEN {"verdict", "counterexample", "log_entry"}
  ELSE {"none", "verdict", "counterexample", "log_entry"}

\* The messages whose body is handed to a codec (or, in log_analyzer_sh,
\* to the ' - ' / ': ' split, which raises on a malformed entry).
CodecApplied(d, m) ==
  CASE d \in {"events_writer", "rt_events_writer_sh"} -> TRUE
    [] d \in {"analysis_stats", "rt_analysis_stats_sh"} -> m.type = "verdict"
    [] d \in {"results_logger", "rt_results_logger_sh"} ->
         m.type \in {"verdict", "counterexample"}
    [] d = "analysis_logger_sh" -> FALSE
    [] d = "log_analyzer_sh" -> TRUE
    [] OTHER -> FALSE

\* Mutant: last_message_time is refreshed before the type test.
UpdatesIdleBeforeTypeTest(d, m) == TRUE

\* last_message_time = time.time() is reached by this non-sentinel message.
UpdatesIdle(d, m) == ~MissingType(d, m)

\* Mutant: a codec failure is logged and the loop goes on to the ack.
RejectedLogsCodecError(d, m) ==
  \/ MissingType(d, m)
  \/ m.type \notin KnownTypes(d)

\* The bucket of the failure that rejects the message.
FailureBucket(d, m) ==
  IF MissingType(d, m) \/ m.type \notin KnownTypes(d) THEN "protocol"
  ELSE "codec"

\* The non-sentinel message ends the run in an error before the ack.
Rejected(d, m) ==
  \/ MissingType(d, m)
  \/ m.type \notin KnownTypes(d)
  \/ CodecApplied(d, m) /\ m.body # "ok"

\* The accepted message is written to the sink (file, side-file, statistics).
WritesSink(d, m) ==
  CASE d \in {"analysis_stats", "rt_analysis_stats_sh"} -> m.type = "verdict"
    [] OTHER -> TRUE

\* The accepted message increments the processed count.
Counts(d, m) ==
  CASE d \in {"events_writer", "rt_events_writer_sh"} -> TRUE
    [] d \in {"analysis_stats", "rt_analysis_stats_sh"} -> m.type = "verdict"
    [] d \in {"results_logger", "rt_results_logger_sh"} -> m.type = "verdict"
    [] d = "rt_results_writer_sh" -> m.type = "log_entry"
    [] d = "analysis_logger_sh" -> TRUE
    [] OTHER -> FALSE

\* This call is made after signal_flags['stop'] became True.
UnitAfterStop(flags) == IF flags.stop THEN 1 ELSE 0

\* Mutant: the ack names the delivery before the one in hand.
DeliveryTagPrevious == Len(fetched) - 1

\* method.delivery_tag of the message being processed.
DeliveryTag == Len(fetched)

\* Mutant: a poll that returns no message restarts the idle period.
IdleAfterEmptyPollRefreshed(lmt, t) == t

\* last_message_time after `if method:` was false: the loop body has no
\* other statement, so the idle period keeps running.
IdleAfterEmptyPoll(lmt, t) == lmt

\* get_message(): raises RabbitMQError, returns no message (the queue is
\* empty or its head has not arrived yet), or returns the head of the queue.
GetMessageStep ==
  /\ pc = "get"
  /\ UNCHANGED sideVars
  /\ \/ /\ pc' = AfterRabbitMQError(driver)
        /\ exit_status' = ExitOn(driver, "transport")
        /\ UNCHANGED <<brokerVars, last_message_time>>
     \/ /\ pc' = "while"
        /\ last_message_time' = IdleAfterEmptyPoll(last_message_time, now)
        /\ UNCHANGED <<brokerVars, exit_status>>
     \/ /\ queue # <<>>
        /\ msg' = Head(queue)
        /\ queue' = Tail(queue)
        /\ fetched' = Append(fetched, Head(queue))
        /\ pc' = "proc"
        /\ UNCHANGED <<acked, exit_status, last_message_time>>
  /\ UNCHANGED <<cfgVars, signal_flags, now, start_time_epoch, ctlVars,
                 sinkVars, fileVars, connection_open, summary, seen_pause,
                 intr_in_wait>>

GetMessage == GetMessageStep /\ UNCHANGED <<units_after_stop, resumed>>

\* `if method:` branch, up to the ack.
ProcessMessage ==
  /\ pc = "proc"
  /\ UNCHANGED <<units_after_stop, resumed, sideVars>>
  /\ IF IsTermination(msg)
       THEN /\ poison_received' = TRUE
            /\ pc' = "ack"
            /\ UNCHANGED <<now, last_message_time, sinkVars, exit_status>>
       ELSE /\ IF UpdatesIdle(driver, msg)
                 THEN \E t \in ClockValues :
                        /\ now' = t
                        /\ last_message_time' = t
                 ELSE UNCHANGED <<now, last_message_time>>
            /\ decoded' = IF CodecApplied(driver, msg) /\ ~MissingType(driver, msg)
                            THEN Append(decoded, DeliveryTag) ELSE decoded
            /\ IF Rejected(driver, msg)
                 THEN /\ pc' = "failed"
                      /\ exit_status' = ExitOn(driver, FailureBucket(driver, msg))
                      /\ UNCHANGED <<written, number_of_events>>
                 ELSE /\ pc' = "ack"
                      /\ UNCHANGED exit_status
                      /\ written' = IF WritesSink(driver, msg)
                                      THEN Append(written, DeliveryTag)
                                      ELSE written
                      /\ number_of_events' =
                           IF Counts(driver, msg) THEN number_of_events + 1
                           ELSE number_of_events
            /\ UNCHANGED poison_received
  /\ UNCHANGED <<cfgVars, signal_flags, start_time_epoch, completed,
                 stop, timeout, brokerVars, fileVars, connection_open,
                 summary, seen_pause, intr_in_wait>>

\* ack_message(method.delivery_tag): returns, or raises RabbitMQError.
AckMessage ==
  /\ pc = "ack"
  /\ UNCHANGED <<units_after_stop, resumed, sideVars>>
  /\ acked' = Append(acked, DeliveryTag)
  /\ \/ pc' = "while" /\ UNCHANGED exit_status
     \/ /\ pc' = AfterRabbitMQError(driver)
        /\ exit_status' = ExitOn(driver, "transport")
  /\ UNCHANGED <<cfgVars, signal_flags, timeVars, ctlVars, queue, msg,
                 fetched, sinkVars, fileVars, connection_open, summary,
                 seen_pause, intr_in_wait>>

\* --------------------------------------------------------------- producers
\* Exchange and routing key a real payload is published to.
PayloadDestination(d) ==
  IF d = "file_reader_sh" THEN <<"exchange", "routing_key">>
  ELSE <<"exchange", "">>

\* Exchange and routing key the poison pill is published to.
PillDestination(d) ==
  IF d = "file_reader_sh" THEN <<"exchange", "routing_key">>
  ELSE <<"exchange", "">>

\* EventCSVCoDec.from_csv / EventDictCoDec.to_dict raise on the line
\* (EventsReader.run only; the _sh producers publish the line as text).
EncodingFails(d, line) == d = "events_reader" /\ line = "csv_bad"

\* Body of the published payload.
PayloadBody(d, line) == IF d = "events_reader" THEN "json" ELSE line

\* Mutant: the pill is published without its headers.
PoisonPillNoHeaders(d) ==
  [dest |-> PillDestination(d), body |-> "", term |-> "absent", line |-> 0]

\* The poison pill: publish_message('', headers={'termination': True}).
PoisonPill(d) ==
  [dest |-> PillDestination(d), body |-> "", term |-> "true", line |-> 0]

Payload(d, k, line) ==
  [dest |-> PayloadDestination(d), body |-> PayloadBody(d, line),
   term |-> "absent", line |-> k]

\* Body of the for loop after the break test: encode and publish one line.
PublishLineStep ==
  /\ pc = "publish"
  /\ UNCHANGED sideVars
  /\ IF EncodingFails(driver, input_file[line_no])
       THEN /\ pc' = "failed"
            /\ exit_status' = ExitOn(driver, "codec")
            /\ UNCHANGED <<sent, number_of_events>>
       ELSE /\ sent' = Append(sent, Payload(driver, line_no, input_file[line_no]))
            /\ \/ /\ pc' = "for"
                  /\ number_of_events' = number_of_events + 1
                  /\ UNCHANGED exit_status
               \/ /\ pc' = AfterRabbitMQError(driver)
                  /\ exit_status' = ExitOn(driver, "transport")
                  /\ UNCHANGED number_of_events
  /\ UNCHANGED <<cfgVars, signal_flags, timeVars, ctlVars, brokerVars,
                 decoded, written, input_file, line_no, connection_open,
                 summary, seen_pause, intr_in_wait>>

PublishLine == PublishLineStep /\ UNCHANGED <<units_after_stop, resumed>>

\* After the loop: publish the poison pill; RabbitMQError ends the run.
SendPoisonPill ==
  /\ pc = "pill"
  /\ UNCHANGED <<units_after_stop, resumed, sideVars>>
  /\ sent' = Append(sent, PoisonPill(driver))
  /\ \/ pc' = AfterLoopPc(driver) /\ UNCHANGED exit_status
     \/ /\ pc' = AfterRabbitMQError(driver)
        /\ exit_status' = ExitOn(driver, "transport")
  /\ UNCHANGED <<cfgVars, signal_flags, timeVars, ctlVars, brokerVars,
                 sinkVars, input_file, line_no, connection_open, summary,
                 seen_pause, intr_in_wait>>

\* ----------------------------------------------------------------- summary
\* The if/elif chain that logs the reason, consumers.
ConsumerSummary(d, poison, stp, tmo) ==
  IF poison THEN [status |-> "COMPLETED", cause |-> "poison"]
  ELSE IF stp THEN [status |-> "STOPPED", cause |-> "sigint"]
  ELSE IF tmo
    THEN [status |-> IF d = "log_analyzer_sh" THEN "ABORTED" ELSE "STOPPED",
          cause |-> "timeout"]
  ELSE [status |-> "STOPPED", cause |-> "unknown"]

\* The if/elif chain that logs the reason, producers.
ProducerSummary(d, cmp, stp, tmo) ==
  IF cmp THEN [status |-> "COMPLETED", cause |-> "eof"]
  ELSE IF tmo THEN [status |-> "COMPLETED", cause |-> "timeout"]
  ELSE IF stp THEN [status |-> "STOPPED", cause |-> "sigint"]
  ELSE [status |-> "STOPPED", cause |-> "unknown"]

Report ==
  /\ pc = "report"
  /\ UNCHANGED <<units_after_stop, resumed, sideVars>>
  /\ summary' = IF driver \in Consumers
                  THEN ConsumerSummary(driver, poison_received, stop, timeout)
                  ELSE ProducerSummary(driver, completed, stop, timeout)
  /\ pc' = IF driver \in ClosingDrivers THEN "close" ELSE "done"
  /\ exit_status' = IF driver \in ClosingDrivers THEN exit_status
                                                 ELSE NormalExit(driver)
  /\ UNCHANGED <<cfgVars, signal_flags, timeVars, ctlVars, brokerVars,
                 sinkVars, fileVars, connection_open, seen_pause, intr_in_wait>>

\* if connection and connection.is_open: connection.close()
CloseConnection ==
  /\ pc = "close"
  /\ UNCHANGED <<units_after_stop, resumed, sideVars>>
  /\ connection_open' = FALSE
  /\ pc' = IF driver \in ClosesBeforeSummary THEN "report" ELSE "done"
  /\ exit_status' = IF driver \in ClosesBeforeSummary THEN exit_status
                                                      ELSE NormalExit(driver)
  /\ UNCHANGED <<cfgVars, signal_flags, timeVars, ctlVars, brokerVars,
                 sinkVars, fileVars, summary, seen_pause, intr_in_wait>>

\* ------------------------------------------------------------ specification
\* The supervised loop of one driver, with the signal handlers.
Next ==
  \/ sigint_handler
  \/ sigtstp_handler
  \/ Configure
  \/ LoopTop
  \/ NextLine
  \/ CheckPause
  \/ PauseWait
  \/ LeavePause
  \/ CheckTimeout
  \/ GetMessage
  \/ ProcessMessage
  \/ AckMessage
  \/ PublishLine
  \/ SendPoisonPill
  \/ Report
  \/ CloseConnection

Spec == Init /\ [][Next]_vars

\* The rt_toolbox mains: the same steps, from their own start.
SpecSh == InitSh /\ [][Next]_vars

\* ------------------------------------------------------ stop responsiveness
\* The loops of EventsWriter.run and file_reader_sh, with the calls made
\* after signal_flags['stop'] became True counted.
InitStop ==
  /\ LoopInit({"events_writer", "file_reader_sh"}, -1..MaxTimeout)
  /\ SideIdle

GetMessageCounted ==
  /\ GetMessageStep
  /\ units_after_stop' = units_after_stop + UnitAfterStop(signal_flags)
  /\ UNCHANGED resumed

PublishLineCounted ==
  /\ PublishLineStep
  /\ units_after_stop' = units_after_stop + UnitAfterStop(signal_flags)
  /\ UNCHANGED resumed

NextStop ==
  \/ sigint_handler
  \/ sigtstp_handler
  \/ Configure
  \/ LoopTop
  \/ NextLine
  \/ CheckPause
  \/ PauseWait
  \/ LeavePause
  \/ CheckTimeout
  \/ GetMessageCounted
  \/ ProcessMessage
  \/ AckMessage
  \/ PublishLineCounted
  \/ SendPoisonPill
  \/ Report
  \/ CloseConnection

SpecStop == InitStop /\ [][NextStop]_vars

\* ---------------------------------------------------- pause and idle time
\* The loops of EventsWriter.run and AnalysisStats.run, with the
\* iterations that went through the pause wait noted.
InitPause ==
  /\ LoopInit({"events_writer", "analysis_stats"}, 0..MaxTimeout)
  /\ SideIdle

CheckPauseNoted == CheckPauseStep /\ resumed' = FALSE

LeavePauseNoted == LeavePauseStep /\ resumed' = TRUE

NextPause ==
  \/ sigint_handler
  \/ sigtstp_handler
  \/ Configure
  \/ LoopTop
  \/ CheckPauseNoted
  \/ PauseWait
  \/ LeavePauseNoted
  \/ CheckTimeout
  \/ GetMessage
  \/ ProcessMessage
  \/ AckMessage
  \/ Report

SpecPause == InitPause /\ [][NextPause]_vars

\* ------------------------------------------------------------- termination
\* The loops of EventsWriter.run and AnalysisStats.run of results_logger.py
\* on queues of payloads their codecs accept and sentinels.
InitLive ==
  /\ LoopInit({"events_writer", "results_logger"}, 0..MaxTimeout)
  /\ \A i \in DOMAIN queue :
       queue[i] \in (IF driver = "events_writer" THEN {Pill, PlainOk}
                                                 ELSE {Pill, VerdictOk})
  /\ SideIdle

\* The statements of run(), from its start to the summary line.
LoopStep ==
  \/ Configure
  \/ LoopTop
  \/ CheckPause
  \/ PauseWait
  \/ LeavePause
  \/ CheckTimeout
  \/ GetMessage
  \/ ProcessMessage
  \/ AckMessage
  \/ Report

NextLive ==
  \/ sigint_handler
  \/ sigtstp_handler
  \/ LoopStep

\* basic_get returns the head of the queue once it is at the broker.
HeadReturned == GetMessage /\ fetched' # fetched

\* time.time() does not return the same value forever.
ClockAdvances == CheckTimeout /\ now' > now

\* The interpreter runs the thread (weak fairness of the statements of
\* run()), the broker delivers and time passes.
SpecLive ==
  /\ InitLive
  /\ [][NextLive]_vars
  /\ WF_vars(LoopStep)
  /\ SF_vars(HeadReturned)
  /\ SF_vars(ClockAdvances)

\* -------------------------------------------------------------- logger_sh
\* logger_sh has one control variable, poison_received, which the stop
\* test, the test after the pause wait and the timeout test set as well;
\* `stop` and `timeout` record, as history, that one of those tests fired.
\* It calls channel.basic_get and channel.basic_ack directly, without a
\* handler: a pika exception ends the interpreter with status 1.
InitLogger ==
  /\ driver = "logger_sh"
  /\ pc = "while"
  /\ arg_timeout \in -1..MaxTimeout
  /\ config_timeout = NormalizeTimeout(arg_timeout)
  /\ signal_flags = [stop |-> FALSE, pause |-> FALSE]
  /\ now = 0
  /\ start_time_epoch = 0
  /\ last_message_time = 0
  /\ poison_received = FALSE
  /\ completed = FALSE
  /\ stop = FALSE
  /\ timeout = FALSE
  /\ queue \in BoundedSeq({Pill, PlainOk}, MaxQueue)
  /\ msg = NoMsg
  /\ fetched = <<>>
  /\ acked = <<>>
  /\ decoded = <<>>
  /\ written = <<>>
  /\ number_of_events = 0
  /\ input_file = <<>>
  /\ line_no = 0
  /\ sent = <<>>
  /\ connection_open = TRUE
  /\ summary = NoSummary
  /\ seen_pause = FALSE
  /\ intr_in_wait = FALSE
  /\ exit_status = Running
  /\ units_after_stop = 0
  /\ resumed = FALSE
  /\ SideIdle

\* while not poison_received and not signal_flags['stop']
LoggerContinues(poison, flags) == ~poison /\ ~flags.stop

LoggerLoopTop ==
  /\ pc = "while"
  /\ pc' = IF LoggerContinues(poison_received, signal_flags)
             THEN "sigint" ELSE "close"
  /\ UNCHANGED <<cfgVars, signal_flags, timeVars, ctlVars, brokerVars,
                 sinkVars, fileVars, connection_open, summary, seen_pause,
                 intr_in_wait, exit_status, units_after_stop, resumed, sideVars>>

\* if signal_flags['stop']: poison_received = True
LoggerCheckStop ==
  /\ pc = "sigint"
  /\ poison_received' = (poison_received \/ signal_flags.stop)
  /\ stop' = (stop \/ signal_flags.stop)
  /\ pc' = "pause"
  /\ UNCHANGED <<cfgVars, signal_flags, timeVars, completed, timeout,
                 brokerVars, sinkVars, fileVars, connection_open, summary,
                 seen_pause, intr_in_wait, exit_status, units_after_stop, resumed,
                 sideVars>>

\* After the wait: if signal_flags['stop']: poison_received = True
LoggerLeavePause ==
  /\ pc = "resume"
  /\ poison_received' = (poison_received \/ signal_flags.stop)
  /\ stop' = (stop \/ signal_flags.stop)
  /\ pc' = "tmo"
  /\ UNCHANGED <<cfgVars, signal_flags, timeVars, completed, timeout,
                 brokerVars, sinkVars, fileVars, connection_open, summary,
                 seen_pause, intr_in_wait, exit_status, units_after_stop, resumed,
                 sideVars>>

\* if 0 < config.timeout < (time.time() - last_message_time):
\*     poison_received = True
\* The basic_get call follows the test without a guard.
LoggerCheckTimeout ==
  /\ pc = "tmo"
  /\ \E t \in (IF 0 < config_timeout THEN ClockValues ELSE {now}) :
       /\ now' = t
       /\ LET fired == IdleTimeoutReached(config_timeout, t, last_message_time)
          IN  /\ timeout' = (timeout \/ fired)
              /\ poison_received' = (poison_received \/ fired)
  /\ pc' = "get"
  /\ UNCHANGED <<cfgVars, signal_flags, start_time_epoch, last_message_time,
                 completed, stop, brokerVars, sinkVars, fileVars,
                 connection_open, summary, seen_pause, intr_in_wait,
                 exit_status, units_after_stop, resumed, sideVars>>

\* An exception nothing catches: traceback, exit status 1.
LoggerUncaught == [kind |-> "exit", code |-> 1]

\* channel.basic_get(queue, auto_ack=False): raises, returns no message,
\* or returns the head of the queue.
LoggerGet ==
  /\ pc = "get"
  /\ \/ /\ pc' = "failed"
        /\ exit_status' = LoggerUncaught
        /\ UNCHANGED brokerVars
     \/ /\ pc' = "while"
        /\ UNCHANGED <<brokerVars, exit_status>>
     \/ /\ queue # <<>>
        /\ msg' = Head(queue)
        /\ queue' = Tail(queue)
        /\ fetched' = Append(fetched, Head(queue))
        /\ pc' = "proc"
        /\ UNCHANGED <<acked, exit_status>>
  /\ UNCHANGED <<cfgVars, signal_flags, timeVars, ctlVars, sinkVars,
                 fileVars, connection_open, summary, seen_pause,
                 intr_in_wait, units_after_stop, resumed, sideVars>>

\* `if method:` branch, up to the ack: the sentinel sets poison_received,
\* any other message is written to the output file.
LoggerProcess ==
  /\ pc = "proc"
  /\ IF IsTermination(msg)
       THEN /\ poison_received' = TRUE
            /\ UNCHANGED <<now, last_message_time, written>>
       ELSE /\ \E t \in ClockValues :
                 /\ now' = t
                 /\ last_message_time' = t
            /\ written' = Append(written, DeliveryTag)
            /\ UNCHANGED poison_received
  /\ pc' = "ack"
  /\ UNCHANGED <<cfgVars, signal_flags, start_time_epoch, completed, stop,
                 timeout, brokerVars, decoded, number_of_events, fileVars,
                 connection_open, summary, seen_pause, intr_in_wait,
                 exit_status, units_after_stop, resumed, sideVars>>

\* channel.basic_ack(delivery_tag=method.delivery_tag)
LoggerAck ==
  /\ pc = "ack"
  /\ acked' = Append(acked, DeliveryTag)
  /\ \/ pc' = "while" /\ UNCHANGED exit_status
     \/ pc' = "failed" /\ exit_status' = LoggerUncaught
  /\ UNCHANGED <<cfgVars, signal_flags, timeVars, ctlVars, queue, msg,
                 fetched, sinkVars, fileVars, connection_open, summary,
                 seen_pause, intr_in_wait, units_after_stop, resumed, sideVars>>

\* After the loop: connection.close(), exit(0).
LoggerClose ==
  /\ pc = "close"
  /\ connection_open' = FALSE
  /\ exit_status' = [kind |-> "exit", code |-> 0]
  /\ pc' = "done"
  /\ UNCHANGED <<cfgVars, signal_flags, timeVars, ctlVars, brokerVars,
                 sinkVars, fileVars, summary, seen_pause, intr_in_wait,
                 units_after_stop, resumed, sideVars>>

NextLogger ==
  \/ sigint_handler
  \/ sigtstp_handler
  \/ LoggerLoopTop
  \/ LoggerCheckStop
  \/ CheckPause
  \/ PauseWait
  \/ LoggerLeavePause
  \/ LoggerCheckTimeout
  \/ LoggerGet
  \/ LoggerProcess
  \/ LoggerAck
  \/ LoggerClose

SpecLogger == InitLogger /\ [][NextLogger]_vars

\* ------------------------------ rt_events_reader_sh -> rt_events_writer_sh
\* Lines of a source file as rt_events_writer_sh tells their text apart
\* once rt_events_reader_sh has published it unchanged: CSV text is not
\* JSON, "json_ok" is the JSON text of an event dictionary, "json_bad" is
\* JSON text EventDictCoDec.from_dict rejects.
SourceLines == Lines \cup {"json_ok", "json_bad"}

\* json.loads(body.decode()) returns a value.
JsonLoads(body) == body \in {"json", "json_ok", "json_bad"}

\* EventDictCoDec.from_dict / EventCSVCoDec.to_csv raise on the value.
FromDictFails(body) == body = "json_bad"

\* rt_events_writer_sh connected, its queue bound, before its loop.
WriterReady ==
  [IdleWriter EXCEPT !.pc = "while", !.connection_open = TRUE]

\* No statistics loop and no adapter call take part.
OthersIdle ==
  /\ aggregator = "none"
  /\ stats = ZeroStats
  /\ received = NoneReceived
  /\ adapter = IdleAdapter
  /\ delivered = <<>>
  /\ spec_files = NoSpecFiles

InitE2E ==
  /\ LoopInitOn({"rt_events_reader_sh"}, {0}, SourceLines)
  /\ writer = WriterReady
  /\ OthersIdle

otherVars ==
  <<aggregator, stats, received, adapter, delivered, spec_files>>

\* The message the writer's get_message returned last.
WriterMsg == sent[writer.taken]

\* while not poison_received and not stop and not abort (no signal arrives
\* and config.timeout is 0, so stop and abort stay False).
WriterLoopTop ==
  /\ writer.pc = "while"
  /\ writer' = [writer EXCEPT
                  !.pc = IF LoopContinues(writer.poison_received, FALSE, FALSE)
                           THEN "get" ELSE "close"]
  /\ UNCHANGED <<loopVars, otherVars>>

\* get_message() on the queue bound to the events exchange: raises
\* RabbitMQError (exit(-2)), returns no message, or returns the oldest
\* message published and not yet taken.
WriterGetMessage ==
  /\ writer.pc = "get"
  /\ \/ writer' = [writer EXCEPT !.pc = "failed", !.exit_code = -2]
     \/ writer' = [writer EXCEPT !.pc = "while"]
     \/ /\ writer.taken < Len(sent)
        /\ writer' = [writer EXCEPT !.pc = "proc", !.taken = @ + 1]
  /\ UNCHANGED <<loopVars, otherVars>>

\* `if method:` branch, up to the ack: the sentinel sets poison_received;
\* any other body goes through json.loads (its error is not caught and
\* ends the interpreter with status 1), then the codecs (exit(-3)), then
\* the write, the flush and the count.
WriterProcessMessage ==
  /\ writer.pc = "proc"
  /\ writer' =
       IF IsTermination(WriterMsg)
         THEN [writer EXCEPT !.pc = "ack", !.poison_received = TRUE]
       ELSE IF ~JsonLoads(WriterMsg.body)
         THEN [writer EXCEPT !.pc = "failed", !.exit_code = 1]
       ELSE IF FromDictFails(WriterMsg.body)
         THEN [writer EXCEPT !.pc = "failed", !.exit_code = -3]
       ELSE [writer EXCEPT !.pc = "ack",
                           !.written = Append(@, WriterMsg.line),
                           !.number_of_events = @ + 1]
  /\ UNCHANGED <<loopVars, otherVars>>

\* ack_message(method.delivery_tag): returns, or raises (exit(-2)).
WriterAckMessage ==
  /\ writer.pc = "ack"
  /\ \E next \in {"while", "failed"} :
       writer' = [writer EXCEPT
                   !.pc = next,
                   !.acked = Append(@, writer.taken),
                   !.exit_code = IF next = "failed" THEN -2 ELSE @]
  /\ UNCHANGED <<loopVars, otherVars>>

\* rabbitmq_event_server_connection.close()
WriterClose ==
  /\ writer.pc = "close"
  /\ writer' = [writer EXCEPT !.pc = "report", !.connection_open = FALSE]
  /\ UNCHANGED <<loopVars, otherVars>>

\* The summary line, then exit(0).
WriterReport ==
  /\ writer.pc = "report"
  /\ writer' = [writer EXCEPT
                  !.pc = "done",
                  !.summary = ConsumerSummary("rt_events_writer_sh",
                                              writer.poison_received,
                                              FALSE, FALSE)]
  /\ UNCHANGED <<loopVars, otherVars>>

\* rt_events_reader_sh and rt_events_writer_sh side by side; no signal is
\* delivered to either.
NextE2E ==
  \/ Configure
  \/ NextLine
  \/ CheckPause
  \/ CheckTimeout
  \/ PublishLine
  \/ SendPoisonPill
  \/ Report
  \/ CloseConnection
  \/ WriterLoopTop
  \/ WriterGetMessage
  \/ WriterProcessMessage
  \/ WriterAckMessage
  \/ WriterClose
  \/ WriterReport

SpecE2E == InitE2E /\ [][NextE2E]_vars

\* -------------------------------------------------------- statistics fold
\* The branch of a process verdict (or of a process log entry):
\* its counter and the trace grow; no branch for the subtype raises.
FoldProcess(s, subtype) ==
  CASE subtype = "TaskStarted" ->
         [s EXCEPT !.task_started = @ + 1, !.trace_length = @ + 1]
    [] subtype = "TaskFinished" ->
         [s EXCEPT !.task_finished = @ + 1, !.trace_length = @ + 1]
    [] subtype = "CheckpointReached" ->
         [s EXCEPT !.checkpoints_reached = @ + 1, !.trace_length = @ + 1]
    [] OTHER -> [s EXCEPT !.pc = "failed"]

\* match verdict.verdict of a PyVerdict or a SymPyVerdict; `case _` logs.
FoldPy(s, outcome) ==
  CASE outcome = "PASS" -> [s EXCEPT !.passed_props = @ + 1]
    [] outcome = "FAIL" -> [s EXCEPT !.failed_props = @ + 1]
    [] OTHER -> s

\* Mutant: MIGHT_FAIL has a counter of its own.
FoldSMT2OwnCounter(s, outcome) ==
  CASE outcome = "PASS" -> [s EXCEPT !.passed_props = @ + 1]
    [] outcome = "MIGHT_FAIL" -> [s EXCEPT !.might_fail_props = @ + 1]
    [] outcome = "FAIL" -> [s EXCEPT !.failed_props = @ + 1]
    [] OTHER -> s

\* match verdict.verdict of an SMT2Verdict; `case _` logs.
FoldSMT2(s, outcome) ==
  CASE outcome = "PASS" -> [s EXCEPT !.passed_props = @ + 1]
    [] outcome = "MIGHT_FAIL" -> [s EXCEPT !.failed_props = @ + 1]
    [] outcome = "FAIL" -> [s EXCEPT !.failed_props = @ + 1]
    [] OTHER -> s

\* The isinstance chain on a decoded verdict, up to the ack: the counters
\* after it, with pc "failed" where it raises (AnalysisStats.run) or exits
\* (rt_analysis_stats_sh); number_of_results grows when it does not.
FoldVerdict(s, v) ==
  LET a == [s EXCEPT !.analyzed_props = @ + 1]
      f == CASE v.class = "process" -> FoldProcess(s, v.subtype)
             [] v.class = "analysis" /\ v.subtype \in {"Py", "SymPy"} ->
                  FoldPy(a, v.outcome)
             [] v.class = "analysis" /\ v.subtype = "SMT2" ->
                  FoldSMT2(a, v.outcome)
             [] v.class = "analysis" -> [a EXCEPT !.pc = "failed"]
             [] OTHER -> [s EXCEPT !.pc = "failed"]
  IN  IF f.pc = "failed" THEN f
      ELSE [f EXCEPT !.number_of_results = @ + 1]

\* The split log entry of rt_log_analyzer_sh, up to the ack:
\* match dict_log_entry['Analysis'] raises KeyError without the key and
\* logs on `case _`.
FoldLogEntry(s, e) ==
  LET a == [s EXCEPT !.analyzed_props = @ + 1]
      f == CASE e.class = "process" -> FoldProcess(s, e.subtype)
             [] e.outcome = "PASS" -> [a EXCEPT !.passed_props = @ + 1]
             [] e.outcome = "MIGHT_FAIL" ->
                  [a EXCEPT !.might_fail_props = @ + 1]
             [] e.outcome = "FAIL" -> [a EXCEPT !.failed_props = @ + 1]
             [] e.outcome = "none" -> [a EXCEPT !.pc = "failed"]
             [] OTHER -> a
  IN  IF f.pc = "failed" THEN f
      ELSE [f EXCEPT !.number_of_results = @ + 1]

Fold(a, s, r) ==
  IF a \in VerdictAggregators THEN FoldVerdict(s, r) ELSE FoldLogEntry(s, r)

InitStats ==
  /\ LoopInit({"none"}, {0})
  /\ writer = IdleWriter
  /\ aggregator \in Aggregators
  /\ stats = [ZeroStats EXCEPT !.pc = "while"]
  /\ received = NoneReceived
  /\ adapter = IdleAdapter
  /\ delivered = <<>>
  /\ spec_files = NoSpecFiles

\* One iteration on a result message: get_message returns it, the fold
\* counts it or ends the run, ack_message acknowledges it.
Aggregate ==
  /\ stats.pc = "while"
  /\ stats.delivery_tag < MaxResults
  /\ \E r \in ResultsOf(aggregator) :
       LET s == [stats EXCEPT !.delivery_tag = @ + 1]
           f == Fold(aggregator, s, r)
       IN  /\ stats' = IF f.pc = "failed" THEN f
                                          ELSE [f EXCEPT !.acked = @ + 1]
           /\ received' = [received EXCEPT ![r] = @ + 1]
  /\ UNCHANGED <<loopVars, writer, aggregator, adapter, delivered, spec_files>>

\* The lines of the report before the percentages.
ReportHead ==
  <<"header", "processed", "rule", "trace", "trace_length", "tasks_started",
    "tasks_finished", "checkpoints_reached", "rule", "analyzed">>

\* Mutant: the percentage lines are written whatever analyzed_props is.
PercentagesWrittenAlways(s) == TRUE

\* if analyzed_props > 0:
PercentagesWritten(s) == s.analyzed_props > 0

\* `x * 100 / analyzed_props` is evaluated with analyzed_props = 0.
DivisionByZero(s) == PercentagesWritten(s) /\ s.analyzed_props = 0

\* The lines written to the output file, in order; the first percentage
\* line is not written when its division raises ZeroDivisionError.
Render(s) ==
  IF DivisionByZero(s) THEN ReportHead
  ELSE ReportHead
       \o (IF PercentagesWritten(s)
             THEN <<"passed_pct", "might_fail_pct", "failed_pct">>
             ELSE <<>>)
       \o <<"rule">>

\* The loop is left, on the poison pill (acknowledged) or on stop or
\* timeout, and the statistics are written.
WriteStatistics ==
  /\ stats.pc = "while"
  /\ \E pill \in BOOLEAN :
       stats' = [stats EXCEPT
                   !.pc = IF DivisionByZero(stats) THEN "crashed" ELSE "done",
                   !.delivery_tag = IF pill THEN @ + 1 ELSE @,
                   !.acked = IF pill THEN @ + 1 ELSE @,
                   !.report = Render(stats)]
  /\ UNCHANGED <<loopVars, writer, aggregator, received, adapter, delivered, spec_files>>

NextStats == Aggregate \/ WriteStatistics

\* The statistics loops on the results they are handed.
SpecStats == InitStats /\ [][NextStats]_vars

\* ------------------------------------------------------------------ trace
\* The task (or checkpoint) names and the timestamps of the process
\* verdicts and process log entries of a run.
Tasks == {"task"}

Timestamps == {1, 2}

\* The entry appended to the trace.  AnalysisStats.run and
\* rt_analysis_stats_sh append the verdict object; rt_log_analyzer_sh
\* appends a dictionary built from the split log entry.
TraceEntry(a, subtype, name, ts) ==
  IF a \in VerdictAggregators
    THEN [kind |-> subtype, name |-> name, event |-> "none", timestamp |-> ts]
  ELSE IF subtype = "TaskStarted"
    THEN [kind |-> "task", name |-> name, event |-> "finished", timestamp |-> ts]
  ELSE IF subtype = "TaskFinished"
    THEN [kind |-> "task", name |-> name, event |-> "finished", timestamp |-> ts]
  ELSE [kind |-> "checkpoint", name |-> name, event |-> "none", timestamp |-> ts]

\* The result reaches a trace.append: a process verdict, or a process log
\* entry, of a subtype the code has a branch for.
Traced(r) ==
  /\ r.class = "process"
  /\ r.subtype \in {"TaskStarted", "TaskFinished", "CheckpointReached"}

\* Mutant: every verdict is appended to the trace.
TraceAfterEveryResult(a, tr, r, name, ts) ==
  Append(tr, TraceEntry(a, r.subtype, name, ts))

\* The trace after the fold of one result.
TraceAfter(a, tr, r, name, ts) ==
  IF Traced(r) THEN Append(tr, TraceEntry(a, r.subtype, name, ts)) ELSE tr

\* The statistics loops with their trace and, as history, the results in
\* arrival order.
InitTrace ==
  /\ LoopInit({"none"}, {0})
  /\ writer = IdleWriter
  /\ aggregator \in Aggregators
  /\ stats = [pc |-> "while", delivery_tag |-> 0,
              task_started |-> 0, task_finished |-> 0,
              checkpoints_reached |-> 0, analyzed_props |-> 0,
              passed_props |-> 0, might_fail_props |-> 0, failed_props |-> 0,
              trace_length |-> 0, number_of_results |-> 0, acked |-> 0,
              report |-> <<>>, trace |-> <<>>, arrived |-> <<>>]
  /\ received = NoneReceived
  /\ adapter = IdleAdapter
  /\ delivered = <<>>
  /\ spec_files = NoSpecFiles

\* One iteration on a result message, with the trace.
AggregateTraced ==
  /\ stats.pc = "while"
  /\ stats.delivery_tag < MaxTrace
  /\ \E r \in ResultsOf(aggregator) :
       \E name \in (IF r.class = "process" THEN Tasks ELSE {"none"}),
          ts \in (IF r.class = "process" THEN Timestamps ELSE {0}) :
         LET s == [stats EXCEPT !.delivery_tag = @ + 1]
             f == Fold(aggregator, s, r)
             g == [f EXCEPT
                     !.trace = TraceAfter(aggregator, @, r, name, ts),
                     !.arrived = Append(@, <<r, name, ts>>)]
         IN  stats' = IF g.pc = "failed" THEN g
                                         ELSE [g EXCEPT !.acked = @ + 1]
  /\ UNCHANGED <<loopVars, writer, aggregator, received, adapter, delivered,
                 spec_files>>

NextTrace == AggregateTraced \/ WriteStatistics

SpecTrace == InitTrace /\ [][NextTrace]_vars

\* ------------------------------------------------------- transport adapter
\* The operations of rabbitmq_utility.
Operations ==
  {"connect_to_server", "connect_to_channel_exchange", "declare_queue",
   "get_message", "ack_message", "publish_message"}

\* The try blocks of an operation, in order, by the provider call inside.
ProviderCalls(op) ==
  CASE op = "connect_to_server" -> <<"BlockingConnection">>
    [] op = "connect_to_channel_exchange" -> <<"exchange_declare">>
    [] op = "declare_queue" -> <<"queue_declare", "queue_bind">>
    [] op = "get_message" -> <<"basic_get">>
    [] op = "ack_message" -> <<"basic_ack">>
    [] op = "publish_message" -> <<"basic_publish">>

\* The exception classes a provider call may raise: those of
\* pika.exceptions the module imports, two further connection errors of
\* pika, and the built-in TypeError and ValueError.
ProviderErrors ==
  {"IncompatibleProtocolError", "ProbableAuthenticationError",
   "ProbableAccessDeniedError", "ConnectionClosed", "StreamLostError",
   "ConnectionWrongStateError", "AMQPConnectionError", "ChannelClosed",
   "ChannelWrongStateError", "AMQPChannelError", "TypeError", "ValueError"}

\* The base class of an exception class, below Exception.
BaseClass(e) ==
  CASE e \in {"IncompatibleProtocolError", "ProbableAuthenticationError",
              "ProbableAccessDeniedError", "ConnectionClosed",
              "StreamLostError", "ConnectionWrongStateError"} ->
         "AMQPConnectionError"
    [] e \in {"ChannelClosed", "ChannelWrongStateError"} -> "AMQPChannelError"
    [] e \in {"AMQPConnectionError", "AMQPChannelError"} -> "AMQPError"
    [] OTHER -> "Exception"

\* `except c:` matches an exception of class e.
RECURSIVE IsInstance(_, _)
IsInstance(e, c) ==
  \/ e = c
  \/ e # "Exception" /\ IsInstance(BaseClass(e), c)

\* The except clauses of the try block around a provider call.
ExceptClauses(call) ==
  CASE call = "BlockingConnection" ->
         {"IncompatibleProtocolError", "ProbableAuthenticationError",
          "ProbableAccessDeniedError", "AMQPConnectionError", "TypeError"}
    [] call \in {"exchange_declare", "queue_declare"} ->
         {"ChannelClosed", "ConnectionClosed", "TypeError"}
    [] call = "queue_bind" ->
         {"ChannelClosed", "ConnectionClosed", "ValueError", "TypeError"}
    [] call = "basic_get" ->
         {"AMQPConnectionError", "ChannelClosed", "ChannelWrongStateError",
          "AMQPChannelError", "TypeError", "ValueError"}
    [] call \in {"basic_ack", "basic_publish"} ->
         {"AMQPConnectionError", "ChannelClosed", "AMQPChannelError",
          "TypeError", "ValueError"}

\* Some except clause of the try block matches: it raises RabbitMQError.
Caught(call, e) == \E c \in ExceptClauses(call) : IsInstance(e, c)

InitTransport ==
  /\ LoopInit({"none"}, {0})
  /\ writer = IdleWriter
  /\ aggregator = "none"
  /\ stats = ZeroStats
  /\ received = NoneReceived
  /\ adapter = IdleAdapter
  /\ delivered = <<>>
  /\ spec_files = NoSpecFiles

\* A caller enters an operation, at its first try block.
CallOperation ==
  /\ adapter.pc = "idle"
  /\ \E op \in Operations :
       adapter' = [adapter EXCEPT !.pc = "try", !.op = op, !.call = 1]
  /\ UNCHANGED <<loopVars, writer, aggregator, stats, received, delivered, spec_files>>

\* The provider call of the try block returns (the next try block, or the
\* operation's return), or raises one of its errors.
ProviderCall ==
  /\ adapter.pc = "try"
  /\ \/ adapter' =
          IF adapter.call < Len(ProviderCalls(adapter.op))
            THEN [adapter EXCEPT !.call = @ + 1]
            ELSE [adapter EXCEPT !.pc = "returned"]
     \/ \E e \in ProviderErrors :
          adapter' = [adapter EXCEPT !.pc = "except", !.exc = e]
  /\ UNCHANGED <<loopVars, writer, aggregator, stats, received, delivered, spec_files>>

\* The except clauses are tried: a match logs and raises RabbitMQError,
\* otherwise the provider's exception goes on to the caller.
HandleError ==
  /\ adapter.pc = "except"
  /\ adapter' =
       [adapter EXCEPT
          !.pc = "raised",
          !.raised = IF Caught(ProviderCalls(adapter.op)[adapter.call],
                               adapter.exc)
                       THEN "RabbitMQError" ELSE adapter.exc]
  /\ UNCHANGED <<loopVars, writer, aggregator, stats, received, delivered, spec_files>>

NextTransport == CallOperation \/ ProviderCall \/ HandleError

\* One call of an operation of the transport adapter.
SpecTransport == InitTransport /\ [][NextTransport]_vars

\* ------------------------------------------------ specification side-files
\* The specifications SpecificationDictCoDec.from_dict may return, by class
\* ("Other": a Specification of no class the code names), property name,
\* timestamp and text.
Specifications ==
  [language : {"Py", "SymPy", "SMT2", "Other"}, property_name : {"p", "q"},
   timestamp : {1, 2}, specification : {"a", "b"}]

\* A 'counterexample' message whose dictionary from_dict rejects.
RejectedDict ==
  [language |-> "none", property_name |-> "none", timestamp |-> 0,
   specification |-> "none"]

\* Mutant: only a PySpecification gets the .py extension.
ExtensionPyOnly(language) == IF language = "Py" THEN "py" ELSE "smt2"

\* isinstance(specification, PySpecification) or
\* isinstance(specification, SymPySpecification): .py, else .smt2
Extension(language) == IF language \in {"Py", "SymPy"} THEN "py" ELSE "smt2"

\* f"{specification.property_name}@{specification.timestamp}.<ext>"
Filename(sp) ==
  <<sp.property_name, "@", sp.timestamp, ".", Extension(sp.language)>>

\* with open(filename, "w") as spec_file: spec_file.write(text): the
\* directory afterwards; a file of that name is truncated and rewritten.
OpenWrite(files, filename, text) ==
  {f \in files : f.filename # filename}
    \cup {[filename |-> filename, content |-> text]}

InitSpecFiles ==
  /\ LoopInit({"none"}, {0})
  /\ writer = IdleWriter
  /\ aggregator = "none"
  /\ stats = ZeroStats
  /\ received = NoneReceived
  /\ adapter = IdleAdapter
  /\ delivered = <<>>
  /\ spec_files = [NoSpecFiles EXCEPT !.pc = "get"]

specFilesFrame ==
  <<loopVars, writer, aggregator, stats, received, adapter, delivered>>

\* get_message returns a message whose type is 'counterexample'.
GetCounterexample ==
  /\ spec_files.pc = "get"
  /\ Len(spec_files.fetched) < MaxSpecs
  /\ \E sp \in Specifications \cup {RejectedDict} :
       spec_files' = [spec_files EXCEPT !.pc = "proc",
                                        !.fetched = Append(@, sp)]
  /\ UNCHANGED specFilesFrame

\* case 'counterexample': from_dict raises, or the file is written.
WriteSpecFile ==
  /\ spec_files.pc = "proc"
  /\ LET tag == Len(spec_files.fetched)
         sp == spec_files.fetched[tag]
     IN  spec_files' =
           IF sp = RejectedDict THEN [spec_files EXCEPT !.pc = "failed"]
           ELSE [spec_files EXCEPT
                   !.pc = "ack",
                   !.files = OpenWrite(@, Filename(sp), sp.specification),
                   !.writes = Append(@, [tag |-> tag,
                                          filename |-> Filename(sp),
                                          content |-> sp.specification])]
  /\ UNCHANGED specFilesFrame

\* ack_message(method.delivery_tag)
AckCounterexample ==
  /\ spec_files.pc = "ack"
  /\ spec_files' = [spec_files EXCEPT
                      !.pc = "get",
                      !.acked = Append(@, Len(spec_files.fetched))]
  /\ UNCHANGED specFilesFrame

NextSpecFiles == GetCounterexample \/ WriteSpecFile \/ AckCounterexample

\* The results logger on a run of counterexample messages.
SpecSpecFiles == InitSpecFiles /\ [][NextSpecFiles]_vars

\* --------------------------------------------------------- signal delivery
\* The process before its loop, the handlers registered.
InitSignals ==
  /\ LoopInit({"none"}, {0})
  /\ writer = IdleWriter
  /\ OthersIdle

\* What a handler leaves alone.
handlerFrame ==
  <<cfgVars, pc, timeVars, ctlVars, brokerVars, sinkVars, fileVars,
    connection_open, summary, seen_pause, intr_in_wait, exit_status,
    units_after_stop, resumed, writer, aggregator, stats, received, adapter,
    spec_files>>

\* SIGINT is delivered: sigint_handler(signum, frame) runs.
DeliverSIGINT ==
  /\ Len(delivered) < MaxSignals
  /\ signal_flags' = StopRequested(signal_flags)
  /\ delivered' = Append(delivered, "SIGINT")
  /\ UNCHANGED handlerFrame

\* SIGTSTP is delivered: sigtstp_handler(signum, frame) runs.
DeliverSIGTSTP ==
  /\ Len(delivered) < MaxSignals
  /\ signal_flags' = PauseToggled(signal_flags)
  /\ delivered' = Append(delivered, "SIGTSTP")
  /\ UNCHANGED handlerFrame

NextSignals == DeliverSIGINT \/ DeliverSIGTSTP

\* The two handlers under any sequence of deliveries.
SpecSignals == InitSignals /\ [][NextSignals]_vars

\* ------------------------------------------------------------------ helpers
Range(q) == {q[i] : i \in DOMAIN q}

Occurrences(q, x) == Cardinality({i \in DOMAIN q : q[i] = x})

RECURSIVE SumOver(_, _)
SumOver(f, S) ==
  IF S = {} THEN 0
  ELSE LET x == CHOOSE y \in S : TRUE IN f[x] + SumOver(f, S \ {x})

\* How many of the results handed to the fold are of the set S.
ReceivedOf(S) == SumOver(received, S)

StrictlyIncreasing(q) == \A i, j \in DOMAIN q : i < j => q[i] < q[j]

\* Positions of `sent` that hold a publish_message call with a true
\* termination header.
PillPositions == {i \in DOMAIN sent : sent[i].term = "true"}

\* The loop was left and the poison pill (producers) went out.
AfterLoop == pc \in {"report", "close", "done"}

\* --------------------------------------------------------------------- C1
\* C1: a producer whose read loop ended by EOF, by an observed stop or by
\* timeout issues exactly one publish_message call with an empty body and
\* headers {termination: True}; the call goes to the destination of the real
\* payloads, follows the last real payload, is made before the connection is
\* closed, and no real payload is published after it.  (A call that raises
\* RabbitMQError is that one call; the run then ends in an error.)
C1_ProducerSentinel ==
  driver \in Producers =>
    /\ Cardinality(PillPositions) <= 1
    /\ \A i \in PillPositions :
         /\ i = Len(sent)
         /\ sent[i].body = ""
         /\ completed \/ stop \/ timeout
         /\ \A j \in DOMAIN sent : sent[j].dest = sent[i].dest
    /\ \A j \in DOMAIN sent \ PillPositions : sent[j].term = "absent"
    /\ (AfterLoop => PillPositions = {Len(sent)} /\ Len(sent) >= 1)
    /\ (pc = "failed" /\ (completed \/ stop \/ timeout) => PillPositions # {})
    /\ (~connection_open /\ pc # "start" => pc = "done" /\ PillPositions # {})

\* A file_reader_sh run that published a line, was stopped, sent the pill and
\* closed the connection.
C1_Witness ==
  /\ driver = "file_reader_sh"
  /\ pc = "done"
  /\ stop
  /\ ~connection_open
  /\ Len(sent) = 2
  /\ sent[1].term = "absent"
  /\ sent[2].term = "true"

\* --------------------------------------------------------------------- C2
\* C2: for every fetched message whose headers carry a true `termination`
\* entry, whatever its body and its other headers, the consumer sets
\* poison_received without decoding, writing or counting the body,
\* acknowledges that message exactly once, and makes no further get_message
\* or ack_message call.
C2_ConsumerSentinel ==
  driver \in Consumers =>
    \A i \in DOMAIN fetched :
      fetched[i].term = "true" =>
        /\ i = Len(fetched)
        /\ pc \in {"proc", "ack", "while", "report", "close", "done", "failed"}
        /\ i \notin Range(decoded)
        /\ i \notin Range(written)
        /\ number_of_events <= Len(fetched) - 1
        /\ (pc # "proc" => poison_received)
        /\ (pc \in {"proc", "ack"} => i \notin Range(acked))
        /\ (pc \notin {"proc", "ack"} =>
              /\ Occurrences(acked, i) = 1
              /\ acked[Len(acked)] = i)
        /\ (pc = "while" => ~LoopContinues(poison_received, stop, timeout))

\* A sentinel that carries a type header and a body was fetched behind a real
\* payload, acknowledged, and the run completed.
C2_Witness ==
  /\ driver = "analysis_stats"
  /\ pc = "done"
  /\ Len(fetched) = 2
  /\ fetched[2] = PillWithPayload
  /\ acked = <<1, 2>>
  /\ summary.cause = "poison"

\* --------------------------------------------------------------------- C3
\* C3: in the consumers, every fetched message that is decoded successfully
\* or recognised as the sentinel is acknowledged exactly once, with its own
\* delivery tag, before the loop goes on; a message whose decoding fails is
\* never acknowledged and the run ends in an error with nothing acknowledged
\* after it.
C3_AckBeforeAdvance ==
  driver \in Consumers =>
    /\ StrictlyIncreasing(acked)
    /\ Range(acked) \subseteq DOMAIN fetched
    /\ \A i \in DOMAIN fetched :
         /\ (i < Len(fetched) => i \in Range(acked))
         /\ (i \in Range(decoded) /\ fetched[i].body = "ok" =>
               \/ i \in Range(acked)
               \/ i = Len(fetched) /\ pc = "ack")
         /\ (fetched[i].term = "true" =>
               \/ i \in Range(acked)
               \/ i = Len(fetched) /\ pc \in {"proc", "ack"})
         /\ (i \in Range(decoded) /\ fetched[i].body # "ok" =>
               /\ i \notin Range(acked)
               /\ i = Len(fetched)
               /\ pc = "failed")

\* The results logger acknowledged a verdict, then the specification codec
\* rejected the next message: the run failed with only the first tag
\* acknowledged.
C3_Witness ==
  /\ driver = "results_logger"
  /\ pc = "failed"
  /\ fetched = <<VerdictOk, CexBad>>
  /\ decoded = <<1, 2>>
  /\ acked = <<1>>

\* --------------------------------------------------------------------- C4
\* C4: a consumer that ends on the sentinel reports COMPLETED, and one that
\* ends on its idle timeout reports ABORTED, a status that differs from the
\* sentinel's and from the SIGINT-stopped one.
C4_TimeoutReportedAborted ==
  driver \in Consumers /\ summary # NoSummary =>
    /\ (summary.cause = "poison" => summary.status = "COMPLETED")
    /\ (summary.cause = "timeout" =>
          /\ summary.status = "ABORTED"
          /\ summary.status # ConsumerSummary(driver, FALSE, TRUE, FALSE).status
          /\ summary.status # ConsumerSummary(driver, TRUE, FALSE, FALSE).status)

\* --------------------------------------------------------------------- C5
\* A step that calls get_message, or publish_message for a real payload.
WorkStep ==
  \/ pc = "get" /\ pc' # "get"
  \/ pc = "publish" /\ Len(sent') > Len(sent)

C6_IdleTimeout ==
  driver \in Consumers /\ pc # "start" =>
    /\ (timeout => /\ config_timeout > 0
                   /\ now - last_message_time > config_timeout
                   /\ pc \in {"while", "report", "close", "done"})
    /\ (config_timeout > 0 /\ pc = "get" =>
          now - last_message_time <= config_timeout)
    /\ (timeout /\ ~stop /\ summary # NoSummary => summary.cause = "timeout")
    /\ ((\A i \in DOMAIN fetched : fetched[i].term = "true") =>
          last_message_time = start_time_epoch)

\* A payload was received at time 1, nothing after it, and with T = 1 the
\* check at time 3 ended the run with the timeout reason.
C6_Witness ==
  /\ driver = "events_writer"
  /\ config_timeout = 1
  /\ last_message_time = 1
  /\ now = 3
  /\ timeout
  /\ ~stop
  /\ summary.cause = "timeout"

\* --------------------------------------------------------------------- C7
\* C7: a timeout of zero disables the timeout: when config.timeout is 0,
\* which includes every negative --timeout argument, no consumer and no
\* producer loop ever sets its timeout flag.
C7_ZeroDisablesTimeout ==
  pc # "start" =>
    /\ config_timeout >= 0
    /\ (arg_timeout <= 0 => config_timeout = 0 /\ ~timeout)
    /\ (config_timeout = 0 => ~timeout)

\* A negative --timeout: the consumer was paused and resumed, received a
\* payload at the last clock value and goes on fetching.
C7_Witness ==
  /\ driver = "analysis_logger_sh"
  /\ arg_timeout < 0
  /\ now - start_time_epoch = MaxTime
  /\ Len(acked) = 1
  /\ pc = "resume"
  /\ ~signal_flags.stop
  /\ ~timeout

\* --------------------------------------------------------------------- C8
\* C8: whenever an iteration observes the stop flag and the timeout condition
\* also holds in that iteration, the run is reported as stopped by SIGINT, in
\* the consumers and in the producers alike.
C8_StopBeatsTimeout ==
  summary # NoSummary /\ stop /\ timeout =>
    summary.cause = "sigint" /\ summary.status = "STOPPED"

\* --------------------------------------------------------------------- C9
\* C9: if SIGINT arrives while the loop is inside the pause wait, the loop
\* leaves the wait and terminates with reason stopped, fetching no message
\* and publishing no real payload on the way.
C9_StopWhilePaused ==
  intr_in_wait =>
    /\ pc \notin {"get", "proc", "ack", "publish"}
    /\ (pc \in {"while", "pill", "report", "close", "done"} => stop)
    /\ (summary # NoSummary => summary.cause = "sigint")

\* -------------------------------------------------------------------- C10
\* C10: the 'unknown reason' branch of the summary is unreachable: at loop
\* exit a consumer has poison_received, stop or timeout set, a producer has
\* completed, stop or timeout set.
C10_NoUnknownReason ==
  /\ (pc = "report" /\ driver \in Consumers =>
        poison_received \/ stop \/ timeout)
  /\ (pc = "report" /\ driver \in Producers => completed \/ stop \/ timeout)
  /\ (summary # NoSummary => summary.cause # "unknown")

\* EventsReader.run published a line, was stopped and logged its summary.
C10_Witness ==
  /\ driver = "events_reader"
  /\ pc = "done"
  /\ number_of_events = 1
  /\ summary.cause = "sigint"

\* -------------------------------------------------------------------- C11
\* The consumer has fetched a message with a true termination header.
SentinelFetched == \E i \in DOMAIN fetched : fetched[i].term = "true"

\* A step of a consumer that has fetched the sentinel leaves the queue and
\* the sink as they are and acknowledges at most the sentinel.
StepAfterSentinel ==
  driver \in Consumers /\ SentinelFetched =>
    /\ queue' = queue
    /\ fetched' = fetched
    /\ decoded' = decoded
    /\ written' = written
    /\ number_of_events' = number_of_events
    /\ acked' \in {acked, Append(acked, Len(fetched))}

\* C11: once the consumer has fetched the sentinel, the payloads queued
\* behind it stay in the queue: nothing more is fetched, decoded, counted or
\* written, and the only acknowledgement still made is the sentinel's own.
C11_SentinelPrecedence == [][StepAfterSentinel]_vars

\* The sentinel came first, was acknowledged, and the run ended with the
\* payload that was queued behind it still in the queue.
C11_Witness ==
  /\ driver = "analysis_logger_sh"
  /\ pc = "done"
  /\ fetched = <<Pill>>
  /\ acked = <<1>>
  /\ queue = <<PlainOk>>
  /\ number_of_events = 0

\* -------------------------------------------------------------------- C12
\* Both processes ended, neither on a transport failure.
BothEnded ==
  /\ pc = "done"
  /\ writer.pc \in {"done", "failed"}
  /\ writer.exit_code # -2

WellFormedFile == \A i \in DOMAIN input_file : input_file[i] = "csv_ok"

\* C12: rt_events_reader_sh and rt_events_writer_sh, both with timeout 0,
\* without signals or transport failures, on a source file of N well-formed
\* lines: the writer ends COMPLETED, reports N written events, wrote the N
\* lines in the order of the file, acknowledged the sentinel, and both
\* connections are closed.
C12_EndToEnd ==
  BothEnded /\ WellFormedFile =>
    /\ writer.summary = [status |-> "COMPLETED", cause |-> "poison"]
    /\ writer.number_of_events = Len(input_file)
    /\ writer.written = [i \in 1..Len(input_file) |-> i]
    /\ \E i \in DOMAIN writer.acked : IsTermination(sent[writer.acked[i]])
    /\ ~writer.connection_open
    /\ ~connection_open

\* -------------------------------------------------------------------- C13
AnalysisVerdicts == {v \in Verdicts : v.class = "analysis"}

\* C13: in AnalysisStats.run and rt_analysis_stats_sh, after any sequence of
\* decoded verdicts, task_started, task_finished and checkpoints_reached are
\* the numbers of TaskStarted, TaskFinished and CheckpointReached verdicts
\* received, analyzed_props is the number of analysis verdicts, passed_props
\* the number of PASS outcomes, failed_props the number of FAIL outcomes plus
\* the number of SMT2 MIGHT_FAIL outcomes, and might_fail_props is 0.
C13_StatisticsFold ==
  aggregator \in VerdictAggregators =>
    /\ stats.task_started = received[Result("process", "TaskStarted", "none")]
    /\ stats.task_finished =
         received[Result("process", "TaskFinished", "none")]
    /\ stats.checkpoints_reached =
         received[Result("process", "CheckpointReached", "none")]
    /\ stats.analyzed_props = ReceivedOf(AnalysisVerdicts)
    /\ stats.passed_props =
         ReceivedOf({v \in AnalysisVerdicts : v.outcome = "PASS"})
    /\ stats.failed_props =
         ReceivedOf({v \in AnalysisVerdicts : v.outcome = "FAIL"})
         + received[Result("analysis", "SMT2", "MIGHT_FAIL")]
    /\ stats.might_fail_props = 0

\* TaskStarted, TaskStarted, TaskFinished, CheckpointReached, PyVerdict(PASS)
\* and SMT2Verdict(MIGHT_FAIL) were folded: started 2, finished 1,
\* checkpoints 1, analyzed 2, passed 1, failed 1, might_fail 0.
C13_Witness ==
  /\ aggregator = "analysis_stats"
  /\ stats.delivery_tag = 6
  /\ received[Result("process", "TaskStarted", "none")] = 2
  /\ received[Result("process", "TaskFinished", "none")] = 1
  /\ received[Result("process", "CheckpointReached", "none")] = 1
  /\ received[Result("analysis", "Py", "PASS")] = 1
  /\ received[Result("analysis", "SMT2", "MIGHT_FAIL")] = 1
  /\ stats.task_started = 2
  /\ stats.task_finished = 1
  /\ stats.checkpoints_reached = 1
  /\ stats.analyzed_props = 2
  /\ stats.passed_props = 1
  /\ stats.failed_props = 1
  /\ stats.might_fail_props = 0
  /\ stats.number_of_results = 6

\* -------------------------------------------------------------------- C14
\* The `type` values consumer d has a processing branch for.
ProcessedTypes(d) ==
  CASE d \in {"analysis_stats", "rt_analysis_stats_sh"} -> {"verdict"}
    [] d \in {"results_logger", "rt_results_logger_sh"} ->
         {"verdict", "counterexample"}
    [] d = "rt_results_writer_sh" -> {"log_entry", "counterexample"}
    [] OTHER -> {}

\* A non-sentinel message whose `type` header the consumer does not know.
UnrecognizedType(d, m) ==
  /\ d \in TypedConsumers
  /\ ~IsTermination(m)
  /\ m.type # "none"
  /\ m.type \notin ProcessedTypes(d)

\* C14: in every result consumer a non-sentinel message with an
\* unrecognized `type` value is never acknowledged, changes no counter and
\* no output, and ends the run in an error.
C14_UnrecognizedTypeFatal ==
  \A i \in DOMAIN fetched :
    UnrecognizedType(driver, fetched[i]) =>
      /\ i \notin Range(acked)
      /\ i \notin Range(written)
      /\ pc \in {"proc", "failed"}

\* -------------------------------------------------------------------- C15
\* The result consumer holds a non-sentinel message without a type header.
UntypedInHand ==
  /\ driver \in {"analysis_stats", "results_logger", "rt_results_writer_sh"}
  /\ pc = "proc"
  /\ ~IsTermination(msg)
  /\ msg.type = "none"

\* The loop's step on such a message (a signal handler leaves pc alone).
StepOnUntyped ==
  /\ UntypedInHand /\ pc' # pc =>
       /\ pc' = "failed"
       /\ exit_status'.kind \in {"raise", "exit"}
       /\ UNCHANGED <<acked, last_message_time, number_of_events, decoded,
                      written>>
  /\ pc = "failed" => UNCHANGED <<pc, acked, sinkVars, last_message_time>>

\* C15: a non-sentinel message without a `type` header received by
\* analysis_stats, results_logger or rt_results_writer_sh ends the run in an
\* error before any acknowledgement: it is not acknowledged,
\* last_message_time, the processed count and the statistics keep their
\* values, and nothing is written for it.
C15_MissingTypeFatal == [][StepOnUntyped]_vars

C15_Witness ==
  /\ driver = "results_logger"
  /\ pc = "failed"
  /\ fetched = <<VerdictOk, PlainOk>>
  /\ msg = PlainOk
  /\ acked = <<1>>
  /\ written = <<1>>
  /\ number_of_events = 1

\* -------------------------------------------------------------------- C16
\* Analysis results whose outcome is none of the values the match names.
OutsideDomain(a) ==
  {r \in ResultsOf(a) : r.class = "analysis" /\ r.outcome = "OTHER"}

\* C16: an analysis result whose outcome is outside the fixed domain
\* (rt_log_analyzer_sh: 'Analysis' not PASSED, MIGHT FAIL or FAILED;
\* AnalysisStats.run: verdict.verdict matching no enum case) fails the run
\* and is not acknowledged; it is not counted and acknowledged.
C16_OutcomeOutsideDomain ==
  ReceivedOf(OutsideDomain(aggregator)) > 0 =>
    /\ stats.pc = "failed"
    /\ stats.acked < stats.delivery_tag
    /\ stats.analyzed_props + stats.trace_length < stats.delivery_tag

\* -------------------------------------------------------------------- C17
\* The run is over: the summary path ended it, or a failure did.
RunOver == pc \in {"done", "failed"}

\* C17: an _sh driver that leaves its control loop, by sentinel, stop or
\* timeout or by a failure of get_message, ack_message, publish_message or
\* a codec call, has closed its broker connection when the process exits.
C17_ConnectionReleased ==
  driver \notin ThreadDrivers /\ RunOver => ~connection_open

\* -------------------------------------------------------------------- C18
\* C18: on normal termination (completed, stopped or timed out) the exit
\* path has closed the transport connection and logged one summary line
\* with the reason, in the worker threads as well as in the _sh drivers.
C18_ExitAction ==
  pc = "done" =>
    /\ ~connection_open
    /\ summary # NoSummary
    /\ summary.cause # "unknown"

\* -------------------------------------------------------------------- C19
Buckets == {"transport", "codec", "protocol"}

\* The run failed on the message in hand, before its ack.
FailedInProc ==
  /\ pc = "failed"
  /\ fetched # <<>>
  /\ Len(fetched) \notin Range(acked)

\* The bucket of the failure that ended the run.
ObservedBucket ==
  IF FailedInProc THEN FailureBucket(driver, msg) ELSE "transport"

\* C19: in rt_results_logger_sh and rt_analysis_stats_sh a transport
\* failure, a codec failure and a protocol violation each end the process
\* with a negative exit code, and the code of one bucket is not the code of
\* another.
C19_DistinctExitCodes ==
  driver \in {"rt_results_logger_sh", "rt_analysis_stats_sh"} /\ pc = "failed"
    => /\ exit_status.kind = "exit"
       /\ exit_status.code < 0
       /\ \A b \in Buckets \ {ObservedBucket} :
            ExitCode(driver, b) # exit_status.code

\* -------------------------------------------------------------------- C20
\* C20: whatever the provider raises inside connect_to_server,
\* connect_to_channel_exchange, declare_queue, get_message, ack_message or
\* publish_message, the operation raises RabbitMQError and no other
\* exception kind reaches the caller.
C20_ErrorsNormalized ==
  adapter.pc = "raised" => adapter.raised = "RabbitMQError"

\* -------------------------------------------------------------------- C21
\* The run ended in an error.
EndedInError == exit_status.kind = "raise" \/ exit_status.code # 0

StepAfterError ==
  EndedInError =>
    /\ pc = "failed"
    /\ UNCHANGED <<pc, queue, fetched, acked, sent, exit_status>>

\* C21: after get_message, ack_message or publish_message raised
\* RabbitMQError inside the loop (as after any other error), the run has
\* ended in an error and performs no further get_message, ack_message or
\* publish_message call.
C21_NoRetry == [][StepAfterError]_vars

\* ack_message raised in EventsWriter.run while a message was still queued.
C21_Witness ==
  /\ driver = "events_writer"
  /\ pc = "failed"
  /\ exit_status = ExitOn(driver, "transport")
  /\ fetched = <<PlainOk>>
  /\ acked = <<1>>
  /\ queue = <<PlainOk>>

\* -------------------------------------------------------------------- C22
\* C22: under any sequence of SIGINT and SIGTSTP deliveries,
\* signal_flags['stop'] is True exactly when a SIGINT was delivered, and
\* signal_flags['pause'] is the parity of the number of SIGTSTP deliveries.
C22_SignalSemantics ==
  /\ signal_flags.stop = ("SIGINT" \in Range(delivered))
  /\ signal_flags.pause = (Occurrences(delivered, "SIGTSTP") % 2 = 1)

\* SIGTSTP, SIGINT, SIGTSTP, SIGINT, SIGTSTP: stopped and paused.
C22_Witness ==
  /\ delivered = <<"SIGTSTP", "SIGINT", "SIGTSTP", "SIGINT", "SIGTSTP">>
  /\ signal_flags = [stop |-> TRUE, pause |-> TRUE]

\* -------------------------------------------------------------------- C23
\* C23: on every normal loop exit of analysis_stats, rt_analysis_stats_sh
\* and rt_log_analyzer_sh the report holds the header, the processed count,
\* the trace dump, the trace length, the three process counters, the
\* analyzed count and the footer rule in that order, with the three
\* percentage lines before the footer if and only if analyzed_props > 0; no
\* division by analyzed_props = 0 is evaluated.
C23_ReportRendering ==
  /\ stats.pc # "crashed"
  /\ stats.pc = "while" => stats.report = <<>>
  /\ stats.pc = "done" =>
       stats.report =
         IF stats.analyzed_props > 0
           THEN <<"header", "processed", "rule", "trace", "trace_length",
                  "tasks_started", "tasks_finished", "checkpoints_reached",
                  "rule", "analyzed", "passed_pct", "might_fail_pct",
                  "failed_pct", "rule">>
           ELSE <<"header", "processed", "rule", "trace", "trace_length",
                  "tasks_started", "tasks_finished", "checkpoints_reached",
                  "rule", "analyzed", "rule">>

\* A run that received process verdicts only: no percentage line.
C23_Witness ==
  /\ aggregator = "rt_analysis_stats_sh"
  /\ stats.pc = "done"
  /\ stats.task_started = 1
  /\ stats.analyzed_props = 0
  /\ Len(stats.report) = 11

\* -------------------------------------------------------------------- C24
\* The writes the results logger made for the message of delivery tag i.
WritesFor(i) ==
  {k \in DOMAIN spec_files.writes : spec_files.writes[k].tag = i}

\* C24: each successfully decoded 'counterexample' message that was
\* acknowledged caused exactly one file write, to
\* {property_name}@{timestamp} with extension .py for a PySpecification or
\* SymPySpecification and .smt2 otherwise, of the specification text; a
\* message is acknowledged only after its write.
C24_SideFileWritten ==
  /\ \A i \in Range(spec_files.acked) :
       LET sp == spec_files.fetched[i] IN
         /\ sp # RejectedDict
         /\ Cardinality(WritesFor(i)) = 1
         /\ \A k \in WritesFor(i) :
              /\ spec_files.writes[k].filename =
                   <<sp.property_name, "@", sp.timestamp, ".",
                     IF sp.language \in {"Py", "SymPy"} THEN "py" ELSE "smt2">>
              /\ spec_files.writes[k].content = sp.specification
  /\ spec_files.pc = "ack" =>
       Cardinality(WritesFor(Len(spec_files.fetched))) = 1

\* A SymPySpecification and an SMT2Specification were written and
\* acknowledged.
C24_Witness ==
  /\ spec_files.acked = <<1, 2>>
  /\ spec_files.fetched[1].language = "SymPy"
  /\ spec_files.fetched[2].language = "SMT2"
  /\ Cardinality(spec_files.files) = 2

\* -------------------------------------------------------------------- C25
\* C25: once the results logger has written the file of a specification,
\* no later message of the run changes that file's content, a later
\* counterexample with the same property_name and timestamp included.
C25_SideFileImmutable ==
  \A k \in DOMAIN spec_files.writes :
    [filename |-> spec_files.writes[k].filename,
     content |-> spec_files.writes[k].content] \in spec_files.files

\* -------------------------------------------------------------------- C26
\* The producer's timeout test sets the flag.  The last payload was sent
\* after the clock read of the previous iteration's test, which `now` holds,
\* so now' - now is an upper bound of the time since that payload.
StepTimesOutProducer ==
  /\ driver \in Producers
  /\ pc = "tmo"
  /\ ~timeout
  /\ timeout'
  /\ number_of_events > 0
  => now' - now > config_timeout

\* C26: with config.timeout = T > 0 a producer takes the timed-out
\* transition only when the time since its last successfully sent payload
\* exceeds T.
C26_ProducerIdleTimeout == [][StepTimesOutProducer]_vars

\* -------------------------------------------------------------------- C27
\* C27: the status keyword of a producer run that ended by timeout differs
\* from the status keyword of a run that ended by reaching EOF.
C27_ProducerTimeoutStatus ==
  driver \in Producers /\ summary.cause = "timeout" =>
    summary.status # ProducerSummary(driver, TRUE, FALSE, FALSE).status

\* -------------------------------------------------------------------- C28
\* C28: once signal_flags['stop'] is True the consumer makes at most one
\* further get_message call (with its ack) and the producer publishes at
\* most one further payload, and a loop that observed the stop ends with
\* the reason stopped, or completed when that unit of work was the sentinel
\* or the last line.
C28_StopResponsiveness ==
  /\ units_after_stop <= 1
  /\ stop /\ summary # NoSummary => summary.cause \in {"sigint", "poison", "eof"}

\* C29: under weak fairness of the loop's steps, a consumer run leaves its
\* loop whenever a sentinel is at the head of the queue, or stop has been
\* requested, or config.timeout > 0 and no payload is left to arrive,
\* provided signal_flags['pause'] is eventually False for good; and the
\* reason it reports is completed only after a sentinel, stopped only after
\* a stop request, timed out only when config.timeout > 0.
SentinelAtHead == queue # <<>> /\ IsTermination(Head(queue))

\* config.timeout > 0 and the payloads have stopped arriving, with room
\* left on the model's clock for the idle period to elapse.
PayloadsStopped ==
  /\ pc = "while"
  /\ config_timeout > 0
  /\ queue = <<>>
  /\ last_message_time + config_timeout < MaxTime

LeaveCase == SentinelAtHead \/ signal_flags.stop \/ PayloadsStopped

LeftLoop == pc \in {"report", "done", "failed"}

ReasonMatches ==
  summary # NoSummary =>
    /\ summary.cause \in {"poison", "sigint", "timeout"}
    /\ summary.cause = "poison" =>
         summary.status = "COMPLETED" /\ SentinelFetched
    /\ summary.cause = "sigint" =>
         summary.status = "STOPPED" /\ signal_flags.stop
    /\ summary.cause = "timeout" => config_timeout > 0 /\ timeout

StepOnEmptyPoll ==
  /\ pc = "get"
  /\ pc' # pc
  /\ fetched' = fetched
  /\ exit_status' = exit_status
  => /\ pc' = "while"
     /\ UNCHANGED <<queue, msg, acked, decoded, written, number_of_events,
                    last_message_time, stats, spec_files, summary,
                    poison_received, stop, timeout>>

C30_EmptyPollNoOp == [][StepOnEmptyPoll]_vars

\* An empty poll happened after a payload had been written and acked: only
\* then is the loop test reached with the clock past last_message_time.
C30_Witness ==
  /\ driver \in Consumers
  /\ pc = "while"
  /\ msg # NoMsg
  /\ written # <<>>
  /\ Len(acked) = Len(fetched)
  /\ now > last_message_time
  /\ ~poison_received /\ ~stop /\ ~timeout

\* C31: at loop exit of every consumer the count of the summary line equals
\* the number of non-sentinel messages the consumer acknowledged; the
\* sentinel is never counted.
AckedPayloads == {i \in Range(acked) : ~IsTermination(fetched[i])}

C31_SummaryCount ==
  driver \in Consumers /\ summary # NoSummary
    => number_of_events = Cardinality(AckedPayloads)

\* C32: the trace of an aggregator is append-only, holds the entries of the
\* process verdicts in arrival order, and between two loop iterations its
\* length is task_started + task_finished + checkpoints_reached; analysis
\* verdicts add nothing to it.
RECURSIVE EntriesOf(_, _)
EntriesOf(a, arr) ==
  IF arr = <<>> THEN <<>>
  ELSE LET r == Head(arr)[1]
           rest == EntriesOf(a, Tail(arr))
       IN  IF r.class = "process" /\ r.subtype # "Other"
             THEN <<TraceEntry(a, r.subtype, Head(arr)[2], Head(arr)[3])>>
                  \o rest
             ELSE rest

TraceBalanced ==
  /\ Len(stats.trace) =
       stats.task_started + stats.task_finished + stats.checkpoints_reached
  /\ stats.trace = EntriesOf(aggregator, stats.arrived)

TraceAppendOnly ==
  /\ Len(stats'.trace) >= Len(stats.trace)
  /\ SubSeq(stats'.trace, 1, Len(stats.trace)) = stats.trace

C32_TraceInvariant == []TraceBalanced /\ [][TraceAppendOnly]_vars

\* A process verdict, an analysis verdict and a second process verdict
\* were folded: the trace holds the two process verdicts, in that order.
C32_Witness ==
  /\ aggregator = "analysis_stats"
  /\ stats.pc = "while"
  /\ Len(stats.arrived) = 3
  /\ stats.arrived[2][1].class = "analysis"
  /\ stats.analyzed_props = 1
  /\ Len(stats.trace) = 2
  /\ stats.trace[1].kind = "TaskFinished"
  /\ stats.trace[2].kind = "TaskStarted"

\* C40: in rt_log_analyzer_sh the trace entry of a 'Task started' log entry
\* is marked as a start and the entry of a 'Task finished' log entry as a
\* finish, so a start and a finish of one task at one timestamp give
\* different entries.
TraceIndex(i) ==
  Cardinality({k \in 1..i : Traced(stats.arrived[k][1])})

C40_TraceEntryKind ==
  aggregator = "rt_log_analyzer_sh" =>
    \A i \in DOMAIN stats.arrived :
      LET subtype == stats.arrived[i][1].subtype
          entry == stats.trace[TraceIndex(i)]
      IN  /\ subtype = "TaskStarted" => entry.event = "started"
          /\ subtype = "TaskFinished" => entry.event = "finished"

\* C39: between two loop iterations of an aggregator analyzed_props equals
\* passed_props + might_fail_props + failed_props, so the percentages of
\* the report add up to 100.
C39_CounterBalance ==
  stats.pc \in {"while", "done"} =>
    stats.analyzed_props =
      stats.passed_props + stats.might_fail_props + stats.failed_props

\* C33: in logger_sh, once an iteration has detected a stop request (at its
\* top or on leaving the pause wait) or an expired idle timeout, nothing
\* more is fetched, written or acknowledged before the loop ends.
StepAfterDetection ==
  stop \/ timeout => UNCHANGED <<fetched, written, acked>>

C33_NoFetchAfterDetection == [][StepAfterDetection]_vars

\* C34: no step of a worker loop writes signal_flags['stop'] or
\* signal_flags['pause']: the flags change only in a step of sigint_handler
\* or sigtstp_handler, which changes nothing of the loop.
StepWritesFlags ==
  signal_flags' # signal_flags =>
    /\ signal_flags' \in
         {StopRequested(signal_flags), PauseToggled(signal_flags)}
    /\ UNCHANGED <<cfgVars, pc, timeVars, ctlVars, brokerVars, sinkVars,
                   fileVars, connection_open, summary, seen_pause,
                   exit_status>>

C34_FlagsOnlyRead == [][StepWritesFlags]_vars

\* A worker thread left the pause wait on a SIGINT that arrived inside it
\* and ended; the pause flag is still as SIGTSTP left it.
C34_Witness ==
  /\ driver \in ThreadDrivers
  /\ pc = "done"
  /\ intr_in_wait
  /\ signal_flags = [stop |-> TRUE, pause |-> TRUE]

\* C35: in a consumer loop the messages fetched and not yet acknowledged
\* number 0 or 1, get_message is called only when they number 0, and the
\* acknowledgements are issued in the order of the fetches.
C35_OneOutstanding ==
  driver \in Consumers =>
    /\ Len(fetched) - Len(acked) \in {0, 1}
    /\ pc = "get" => Len(acked) = Len(fetched)
    /\ \A i \in DOMAIN acked : acked[i] = i

\* Two messages were fetched and acknowledged, and the loop is about to
\* call get_message again.
C35_Witness ==
  /\ driver = "events_writer"
  /\ pc = "get"
  /\ Len(fetched) = 2
  /\ acked = <<1, 2>>

\* C36: in file_reader_sh and EventsReader.run the real payloads published
\* so far are, in order and without gap or duplicate, those of the first
\* lines of the source file, number_of_events is their number, and the
\* line read by the iteration that observes stop or timeout is neither
\* published nor counted.
IsPayload(m) == m.term = "absent"

PublishedPayloads == SelectSeq(sent, IsPayload)

C36_ProducerPrefix ==
  driver \in {"file_reader_sh", "events_reader"} =>
    /\ \A i \in DOMAIN PublishedPayloads :
         /\ PublishedPayloads[i].line = i
         /\ PublishedPayloads[i].body = PayloadBody(driver, input_file[i])
    /\ pc # "failed" => number_of_events = Len(PublishedPayloads)
    /\ pc = "failed" => Len(PublishedPayloads) - number_of_events \in {0, 1}
    /\ stop \/ timeout =>
         /\ line_no = Len(PublishedPayloads) + 1
         /\ number_of_events = line_no - 1

\* The first line was published; the iteration of the second line observed
\* the stop request, and the run ended with the sentinel.
C36_Witness ==
  /\ driver = "file_reader_sh"
  /\ pc = "done"
  /\ stop
  /\ Len(input_file) = 2
  /\ line_no = 2
  /\ number_of_events = 1
  /\ Len(sent) = 2
  /\ sent[1].line = 1

\* C37: entering and leaving the pause wait leaves last_message_time
\* unchanged, so a consumer with config.timeout = T > 0 that resumes when
\* more than T has elapsed since the last payload sets its timeout flag in
\* that iteration and fetches nothing, whatever waits in the queue, and it
\* reports the timeout unless a stop was requested too.
StepWhilePaused ==
  /\ pc \in {"pause", "wait", "resume"} =>
       last_message_time' = last_message_time
  /\ /\ pc = "tmo"
     /\ pc' # pc
     /\ resumed
     /\ 0 < config_timeout
     /\ now' - last_message_time > config_timeout
     => /\ timeout'
        /\ pc' = "while"
        /\ UNCHANGED <<brokerVars, sinkVars, last_message_time>>

TimeoutReported ==
  /\ timeout => pc \notin {"get", "proc", "ack"}
  /\ timeout /\ ~stop /\ summary # NoSummary => summary.cause = "timeout"

C37_PausedTimeIsIdle == [][StepWhilePaused]_vars /\ []TimeoutReported

\* A consumer was paused and resumed with no stop request, timed out in the
\* iteration that resumed, with the sentinel still in the queue, and
\* reported the timeout.
C37_Witness ==
  /\ driver = "events_writer"
  /\ pc = "done"
  /\ resumed
  /\ ~signal_flags.stop
  /\ fetched = <<PlainOk>>
  /\ queue = <<Pill>>
  /\ summary.cause = "timeout"

\* C38: a producer that fails on a real payload (a CSV or dictionary
\* encoding error in EventsReader.run, a publish error there or in
\* file_reader_sh) publishes no sentinel in that run: the payloads already
\* published are followed by nothing.
Faulted == exit_status \notin {Running, NormalExit(driver)}

StepOnFault ==
  /\ pc = "publish" /\ exit_status' # exit_status =>
       \A i \in DOMAIN sent' : IsPayload(sent'[i])
  /\ Faulted => sent' = sent

C38_NoSentinelAfterFault == [][StepOnFault]_vars

\* EventsReader.run published the first line and failed on the CSV text of
\* the second.
C38_Witness ==
  /\ driver = "events_reader"
  /\ pc = "failed"
  /\ Len(input_file) = 2
  /\ EncodingFails(driver, input_file[2])
  /\ line_no = 2
  /\ Len(sent) = 1
  /\ IsPayload(sent[1])

====
